---- MODULE Spec2Model ----
(***************************************************************************)
(* Model of the streaming response reconciliation of the Teams A2A bot:    *)
(* DialogBot.routeToA2AAgent, DialogBot.handleStreamingResponse and its    *)
(* synchronous fallback DialogBot.handleRegularResponse                    *)
(* (src/bots/dialogBot.js; MainDialog carries the same routine).           *)
(*                                                                         *)
(* A text is a sequence of tokens, so that the JavaScript "+=" is \o and   *)
(* the empty string (falsy, like undefined) is << >>.  Every call on the   *)
(* display surface or on the agent is written to `log` with the source     *)
(* line of the call site; the activity id of a sent message is its index   *)
(* in `log`.  The main flow is suspended at every state of the model (an   *)
(* await is pending), which is where a timer callback may run.             *)
(***************************************************************************)
EXTENDS Integers, Sequences, FiniteSets, TLC

\* ---------------------------------------------------------------- bounds
MaxEvents == 3      \* events one stream yields at most
MaxTicks == 1       \* timer callbacks that run during one invocation
MaxRoutedEvents == 2 \* events one stream yields at most in a whole turn
MaxDialogEvents == 1 \* events one stream yields at most in a dialog run

\* ------------------------------------------------------- program constants
UPDATE_INTERVAL == 5

\* ------------------------------------------------------------- data model
TextPart(t) == [kind |-> "text", text |-> t, filename |-> ""]
FilePart(f) == [kind |-> "file", text |-> << >>, filename |-> f]
Artifact(id, name, parts) ==
    [artifactId |-> id, name |-> name, parts |-> parts, hasParts |-> TRUE]
\* An artifact that carries no parts member.
ArtifactNoParts(id, name) ==
    [artifactId |-> id, name |-> name, parts |-> << >>, hasParts |-> FALSE]
NoArtifact == ArtifactNoParts("", "")
Status(state, message) == [state |-> state, message |-> message]
NoStatus == Status("", "")

MessageEvent(parts) ==
    [kind |-> "message", parts |-> parts, id |-> "", status |-> NoStatus,
     artifacts |-> << >>, artifact |-> NoArtifact]
TaskEvent(id, status, artifacts) ==
    [kind |-> "task", parts |-> << >>, id |-> id, status |-> status,
     artifacts |-> artifacts, artifact |-> NoArtifact]
StatusUpdateEvent(status) ==
    [kind |-> "status-update", parts |-> << >>, id |-> "", status |-> status,
     artifacts |-> << >>, artifact |-> NoArtifact]
ArtifactUpdateEvent(artifact) ==
    [kind |-> "artifact-update", parts |-> << >>, id |-> "", status |-> NoStatus,
     artifacts |-> << >>, artifact |-> artifact]
NoTask ==
    [kind |-> "none", parts |-> << >>, id |-> "", status |-> NoStatus,
     artifacts |-> << >>, artifact |-> NoArtifact]

\* The events a stream may yield.
MsgPartial == MessageEvent(<<TextPart(<<"partial">>)>>)
MsgFileFirst == MessageEvent(<<FilePart("f.txt"), TextPart(<<"late">>)>>)
TaskWorking == TaskEvent("t1", Status("working", ""), << >>)
StatusCompleted == StatusUpdateEvent(Status("completed", "done"))
StatusFailed == StatusUpdateEvent(Status("failed", "boom"))
ArtHello == ArtifactUpdateEvent(Artifact("a1", "", <<TextPart(<<"Hello ">>)>>))
ArtThree ==
    ArtifactUpdateEvent(Artifact("a2", "notes",
        <<TextPart(<<"x">>), FilePart(""), TextPart(<<"y">>), TextPart(<<"z">>)>>))
Events ==
    {MsgPartial, MsgFileFirst, TaskWorking, StatusCompleted, StatusFailed,
     ArtHello, ArtThree}

\* Longer streams, and streams with further events, that are followed event
\* by event.
ArtWorld == ArtifactUpdateEvent(Artifact("a1", "", <<TextPart(<<"World">>)>>))
ArtFileOnly == ArtifactUpdateEvent(Artifact("a3", "", <<FilePart("f.bin")>>))
ArtNoParts == ArtifactUpdateEvent(ArtifactNoParts("a4", "bare"))
TaskTwoArtifacts ==
    TaskEvent("t2", Status("working", "half way"),
        <<Artifact("b1", "", <<TextPart(<<"one">>), FilePart("f.txt")>>),
          Artifact("b2", "notes", <<FilePart(""), TextPart(<<"two">>)>>)>>)
ScriptHello == <<TaskWorking, ArtHello, ArtWorld, StatusCompleted>>
ScriptTaskFirst == <<TaskTwoArtifacts, ArtNoParts, ArtFileOnly>>
ScriptTaskLast == <<ArtFileOnly, TaskTwoArtifacts>>
Scripts == {ScriptHello, ScriptTaskFirst, ScriptTaskLast}
ScriptEvents == UNION {{s[i] : i \in 1..Len(s)} : s \in Scripts}
AllEvents == Events \cup ScriptEvents

\* The text the user may have typed (activity.text), a sequence of characters.
TxtHi == <<"H", "i">>
TxtExitQ == <<"e", "x", "i", "t", "?">>
TxtLogin == <<" ", "L", "o", "g", "i", "n">>
TxtExit == <<"E", "X", "I", "T", " ">>
TxtLogout == <<"l", "o", "g", "o", "u", "t">>
UserMessages == {TxtHi, TxtExitQ, TxtLogin, TxtExit, TxtLogout}

\* What the text prompt of the dialog may be answered with.
TxtExitWord == <<"E", "x", "i", "t">>
DialogMessages == {TxtHi, TxtExit, TxtExitWord}

\* String.prototype.trim and toLowerCase on these characters.
WhiteSpace == {" ", "\t", "\n"}
RECURSIVE TrimStart(_)
TrimStart(t) ==
    IF t # << >> /\ Head(t) \in WhiteSpace THEN TrimStart(Tail(t)) ELSE t
RECURSIVE TrimEnd(_)
TrimEnd(t) ==
    IF t # << >> /\ t[Len(t)] \in WhiteSpace
    THEN TrimEnd(SubSeq(t, 1, Len(t) - 1))
    ELSE t
Trim(t) == TrimEnd(TrimStart(t))
LowerOf(c) ==
    CASE c = "E" -> "e" [] c = "G" -> "g" [] c = "H" -> "h" [] c = "I" -> "i"
      [] c = "L" -> "l" [] c = "N" -> "n" [] c = "O" -> "o" [] c = "T" -> "t"
      [] c = "U" -> "u" [] c = "X" -> "x" [] OTHER -> c
ToLowerCase(t) == [i \in 1..Len(t) |-> LowerOf(t[i])]

dialogCommands ==
    {<<"l", "o", "g", "i", "n">>, <<"l", "o", "g", "o", "u", "t">>,
     <<"e", "x", "i", "t">>}

\* The text is lower-cased and not trimmed.
NormalizedText_NoTrim(t) == ToLowerCase(t)

\* context.activity.text.trim().toLowerCase()
NormalizedText(t) == ToLowerCase(Trim(t))

\* The agent client is not looked at.
ShouldRoute_TokenOnly(isDialogCommand, hasAuth, client) ==
    ~isDialogCommand /\ hasAuth

\* The condition under which handleMessage calls routeToA2AAgent.
ShouldRoute(isDialogCommand, hasAuth, client) ==
    ~isDialogCommand /\ hasAuth /\ client

\* Errors are their message, a sequence of tokens.
ErrUnauthorized == <<"401">>
ErrNetwork == <<"ECONNRESET">>
ErrDisplay == <<"activity failed">>
NoError == << >>
StreamErrors == {ErrUnauthorized, ErrNetwork}

\* What a2aClient.sendMessage may give back: it throws, or answers with an
\* error member, or with a result.
ResultMessage == MessageEvent(<<TextPart(<<"answer">>)>>)
ResultEmptyMessage == MessageEvent(<< >>)
ResultTaskWorking ==
    TaskEvent("t9", Status("working", "queued"),
        <<Artifact("r1", "", <<TextPart(<<"draft">>), FilePart("")>>),
          Artifact("r2", "log", <<FilePart("out.txt")>>)>>)
ResultTaskCompleted == TaskEvent("t8", Status("completed", ""), << >>)
ResultTaskFailed == TaskEvent("t7", Status("failed", ""), << >>)
ResultTaskCanceled == TaskEvent("t6", Status("canceled", ""), << >>)
Response(kind, error, result) == [kind |-> kind, error |-> error, result |-> result]
Responses ==
    {Response("throw", ErrUnauthorized, NoTask),
     Response("error", ErrNetwork, NoTask),
     Response("result", NoError, ResultMessage),
     Response("result", NoError, ResultEmptyMessage),
     Response("result", NoError, ResultTaskWorking)}
\* ... and tasks that have come to their end.
EndedTaskResponses ==
    {Response("result", NoError, ResultTaskCompleted),
     Response("result", NoError, ResultTaskFailed),
     Response("result", NoError, ResultTaskCanceled)}

AllResponses == Responses \cup EndedTaskResponses

\* --------------------------------------------------------------- the state
VARIABLES
    pc,               \* where the main flow is suspended
    route,            \* where handleMessage is: "received", "agent" (in
                      \* routeToA2AAgent or returned after it), "report",
                      \* "dialog", "done", "failed"
    userMessage,      \* context.activity.text
    accessToken,      \* turnState has a truthy accessToken
    a2aClient,        \* turnState has a truthy a2aClient
    dialogRuns,       \* calls of this.dialog.run in this turn
    reported,         \* the error message handleMessage displayed
    eventBudget,      \* events the agent's stream yields at most
    responses,        \* what a2aClient.sendMessage may give back
    stage,            \* the dialog stack of MainDialog: "empty", or the
                      \* prompt waiting on the waterfall: "oauth", "confirm",
                      \* "oauth2", "query"
    promptResult,     \* what the waiting prompt gives the next step
    convState,        \* turnState has a conversationState
    persisted,        \* a2aState holds an accessToken and an a2aServerUrl
    serverUrl,        \* turnState has a truthy a2aServerUrl
    said,             \* the messages the steps of the dialog displayed
    streamState,      \* "unopened", "open", "ended", "raised"
    consumed,         \* the events the for-await loop has taken, in order
    partIdx,          \* artifact-update: the next part of the inner loop, or 0
    pending,          \* the display call being awaited, or NoCall
    outbox,           \* the sendActivity calls of a rendering still to make
    accumulatedText, currentTask, receivedEvents, lastArtifacts,
    messageActivity,  \* id of the message sent first, 0 for null
    updateCount, isCompleted,
    timerActive,      \* typingInterval is set and not cleared
    log,              \* the calls made, in order, with their outcome
    ticks,            \* timer callbacks that sent a typing activity
    tickFails,        \* ... of which failed
    caught,           \* the error the catch of handleStreamingResponse got
    thrown            \* the error routeToA2AAgent threw to its caller

sessionVars == <<accessToken, a2aClient>>
dialogVars == <<stage, promptResult, convState, persisted, serverUrl, said>>
callerVars ==
    <<route, userMessage, dialogRuns, reported, eventBudget, responses,
      dialogVars>>
turnVars == <<callerVars, sessionVars>>

vars ==
    <<pc, turnVars, streamState, consumed, partIdx, pending, outbox,
      accumulatedText, currentTask, receivedEvents, lastArtifacts,
      messageActivity, updateCount, isCompleted, timerActive, log, ticks,
      tickFails, caught, thrown>>

reconVars ==
    <<accumulatedText, currentTask, receivedEvents, lastArtifacts,
      messageActivity, updateCount>>

Call(op, site, id, text) == [op |-> op, site |-> site, id |-> id, text |-> text]
NoCall == Call("none", 0, 0, << >>)
Entry(call, ok) ==
    [op |-> call.op, site |-> call.site, id |-> call.id, text |-> call.text,
     ok |-> ok]

\* `🤖 ${text}`
Bot(text) == <<"bot:">> \o text

\* The locals of handleStreamingResponse before it is called.
ReconcileInit ==
    /\ streamState = "unopened"
    /\ consumed = << >>
    /\ partIdx = 0
    /\ pending = NoCall
    /\ outbox = << >>
    /\ accumulatedText = << >>
    /\ currentTask = NoTask
    /\ receivedEvents = FALSE
    /\ lastArtifacts = << >>
    /\ messageActivity = 0
    /\ updateCount = 0
    /\ isCompleted = FALSE
    /\ timerActive = FALSE
    /\ log = << >>
    /\ ticks = 0
    /\ tickFails = 0
    /\ caught = NoError
    /\ thrown = NoError

\* MainDialog.run is not looked into: nothing of the dialog is on the stack
\* or in the stores.
DialogClosed ==
    /\ stage = "empty"
    /\ promptResult = "none"
    /\ convState = FALSE
    /\ persisted = FALSE
    /\ serverUrl = FALSE
    /\ said = << >>

\* routeToA2AAgent is entered: handleMessage found a text that is no dialog
\* command, a token and a client. The routine only hands the text on, so
\* one text stands for all here; RouterSpec runs it with every text.
Init ==
    /\ pc = "start"
    /\ route = "agent"
    /\ userMessage = TxtHi
    /\ accessToken = TRUE
    /\ a2aClient = TRUE
    /\ dialogRuns = 0
    /\ reported = NoError
    /\ eventBudget = MaxEvents
    /\ responses = Responses
    /\ DialogClosed
    /\ ReconcileInit

\* A message activity arrives: handleMessage is entered.
RouterInit ==
    /\ pc = "idle"
    /\ route = "received"
    /\ userMessage \in UserMessages
    /\ accessToken \in BOOLEAN
    /\ a2aClient \in BOOLEAN
    /\ dialogRuns = 0
    /\ reported = NoError
    /\ eventBudget = MaxRoutedEvents
    /\ responses = AllResponses
    /\ DialogClosed
    /\ ReconcileInit

\* ------------------------------------------------------------ pure helpers
Last(s) == s[Len(s)]

\* error.message.includes(token)
Includes(msg, token) == \E i \in 1..Len(msg) : msg[i] = token
IsAuthError(msg) == Includes(msg, "401") \/ Includes(msg, "Unauthorized")

\* event.parts && event.parts[0]?.text
FirstText(parts) == IF Len(parts) > 0 THEN parts[1].text ELSE << >>

\* The response of the first sendActivity is not consulted: every contribution
\* sends a message.
DisplayCallFor_AlwaysSend(handle, count, text, sendSite, updateSite) ==
    Call("send", sendSite, 0, Bot(text))

\* The message is updated at every contribution after the first.
DisplayCallFor_EveryTime(handle, count, text, sendSite, updateSite) ==
    IF handle = 0
    THEN Call("send", sendSite, 0, Bot(text))
    ELSE Call("update", updateSite, handle, Bot(text))

\* The interval is tested on the count before its increment.
DisplayCallFor_CountBeforeIncrement(handle, count, text, sendSite, updateSite) ==
    IF handle = 0
    THEN Call("send", sendSite, 0, Bot(text))
    ELSE IF (count - 1) % UPDATE_INTERVAL = 0
         THEN Call("update", updateSite, handle, Bot(text))
         ELSE NoCall

\* The display call one text contribution makes, once accumulatedText and
\* updateCount have been advanced: the first message, a periodic update of
\* it, or none.
DisplayCallFor(handle, count, text, sendSite, updateSite) ==
    IF handle = 0
    THEN Call("send", sendSite, 0, Bot(text))
    ELSE IF count % UPDATE_INTERVAL = 0
         THEN Call("update", updateSite, handle, Bot(text))
         ELSE NoCall

\* The synchronous run of the artifact-update part loop from part k, up to
\* its next await (call # NoCall, resume at next) or its end (next = 0).
RECURSIVE ArtifactRun(_, _, _, _, _)
ArtifactRun(parts, k, text, count, handle) ==
    IF k > Len(parts)
    THEN [text |-> text, count |-> count, next |-> 0, call |-> NoCall]
    ELSE IF parts[k].kind = "text" /\ parts[k].text # << >>
         THEN LET call == DisplayCallFor(handle, count + 1,
                              text \o parts[k].text, 227, 231)
              IN IF call # NoCall
                 THEN [text |-> text \o parts[k].text, count |-> count + 1,
                       next |-> k + 1, call |-> call]
                 ELSE ArtifactRun(parts, k + 1, text \o parts[k].text,
                                  count + 1, handle)
         ELSE ArtifactRun(parts, k + 1, text, count, handle)

\* The sendActivity calls that display one artifact's parts, in order.
RECURSIVE PartLines(_, _, _)
PartLines(parts, textSite, fileSite) ==
    IF parts = << >> THEN << >>
    ELSE LET p == Head(parts)
             line == IF p.kind = "text"
                     THEN <<Call("send", textSite, 0, <<"text:">> \o p.text)>>
                     ELSE IF p.kind = "file"
                     THEN <<Call("send", fileSite, 0,
                                <<"file:", IF p.filename # "" THEN p.filename
                                                              ELSE "unnamed">>)>>
                     ELSE << >>
         IN line \o PartLines(Tail(parts), textSite, fileSite)

\* The name line follows the artifact's parts.
RECURSIVE ArtifactLines_NameAfterParts(_, _, _, _)
ArtifactLines_NameAfterParts(artifacts, nameSite, textSite, fileSite) ==
    IF artifacts = << >> THEN << >>
    ELSE LET a == Head(artifacts)
         IN (IF a.hasParts THEN PartLines(a.parts, textSite, fileSite)
             ELSE << >>)
            \o <<Call("send", nameSite, 0,
                     <<"artifact:", IF a.name # "" THEN a.name ELSE a.artifactId>>)>>
            \o ArtifactLines_NameAfterParts(Tail(artifacts), nameSite, textSite,
                                            fileSite)

\* The sendActivity calls that display the artifacts, in order.
RECURSIVE ArtifactLines(_, _, _, _)
ArtifactLines(artifacts, nameSite, textSite, fileSite) ==
    IF artifacts = << >> THEN << >>
    ELSE LET a == Head(artifacts)
         IN <<Call("send", nameSite, 0,
                  <<"artifact:", IF a.name # "" THEN a.name ELSE a.artifactId>>)>>
            \o (IF a.hasParts THEN PartLines(a.parts, textSite, fileSite)
                ELSE << >>)
            \o ArtifactLines(Tail(artifacts), nameSite, textSite, fileSite)

StatusMessageLine(status, site) ==
    IF status.message # ""
    THEN <<Call("send", site, 0, <<"info:", status.message>>)>>
    ELSE << >>

\* What is displayed once the loop has ended normally: an update of the
\* streamed message, or a list of new activities.
FinalUpdate(text, handle) ==
    IF text # << >> /\ handle # 0
    THEN Call("update", 263, handle, Bot(text))
    ELSE NoCall

\* The notice is tied to receivedEvents instead of its negation.
FinalSends_NoticeInverted(text, handle, task, artifacts, received) ==
    IF text # << >>
    THEN IF handle # 0 THEN << >> ELSE <<Call("send", 274, 0, Bot(text))>>
    ELSE IF task # NoTask
    THEN <<Call("send", 278, 0, <<"task:", task.id, task.status.state>>)>>
         \o ArtifactLines(artifacts, 283, 287, 289)
         \o StatusMessageLine(task.status, 298)
    ELSE IF received
    THEN <<Call("send", 301, 0, <<"No response received from agent.">>)>>
    ELSE << >>

\* The notice is the plain else of the chain.
FinalSends_NoticeUnconditional(text, handle, task, artifacts, received) ==
    IF text # << >>
    THEN IF handle # 0 THEN << >> ELSE <<Call("send", 274, 0, Bot(text))>>
    ELSE IF task # NoTask
    THEN <<Call("send", 278, 0, <<"task:", task.id, task.status.state>>)>>
         \o ArtifactLines(artifacts, 283, 287, 289)
         \o StatusMessageLine(task.status, 298)
    ELSE <<Call("send", 301, 0, <<"No response received from agent.">>)>>

\* The display after the loop when no message is to be updated: the text, or
\* else the task with its artifacts and status message, or else the notice.
FinalSends(text, handle, task, artifacts, received) ==
    IF text # << >>
    THEN IF handle # 0 THEN << >> ELSE <<Call("send", 274, 0, Bot(text))>>
    ELSE IF task # NoTask
    THEN <<Call("send", 278, 0, <<"task:", task.id, task.status.state>>)>>
         \o ArtifactLines(artifacts, 283, 287, 289)
         \o StatusMessageLine(task.status, 298)
    ELSE IF ~received
    THEN <<Call("send", 301, 0, <<"No response received from agent.">>)>>
    ELSE << >>

IsTerminal(state) == state \in {"completed", "failed", "canceled"}

\* The result is appended to the text streamed so far.
RegularLines_Merged(result) ==
    <<Call("send", 334, 0, Bot(accumulatedText \o FirstText(result.parts)))>>

\* The notice follows every task, whatever its state.
RegularLines_AlwaysNotice(result) ==
    IF result.kind = "message"
    THEN LET t == FirstText(result.parts)
         IN <<Call("send", 334, 0,
                  Bot(IF t # << >> THEN t ELSE <<"No text content">>))>>
    ELSE IF result.kind = "task"
    THEN <<Call("send", 336, 0, <<"task:", result.id, result.status.state>>)>>
         \o ArtifactLines(result.artifacts, 341, 345, 347)
         \o StatusMessageLine(result.status, 356)
         \o <<Call("send", 361, 0, <<"pending:", result.status.state>>)>>
    ELSE << >>

\* What handleRegularResponse displays for a result.
RegularLines(result) ==
    IF result.kind = "message"
    THEN LET t == FirstText(result.parts)
         IN <<Call("send", 334, 0,
                  Bot(IF t # << >> THEN t ELSE <<"No text content">>))>>
    ELSE IF result.kind = "task"
    THEN <<Call("send", 336, 0, <<"task:", result.id, result.status.state>>)>>
         \o ArtifactLines(result.artifacts, 341, 345, 347)
         \o StatusMessageLine(result.status, 356)
         \o (IF ~IsTerminal(result.status.state)
             THEN <<Call("send", 361, 0, <<"pending:", result.status.state>>)>>
             ELSE << >>)
    ELSE << >>

\* The error routeToA2AAgent throws for an error of handleStreamingResponse.
RouteRethrow(e) ==
    IF IsAuthError(e)
    THEN <<"401", "Unauthorized", "-", "Authentication required">>
    ELSE e

\* The error sendMessageWithPolling throws for an error of
\* handleStreamingResponse.
PollingRethrow(e) == <<"Failed to communicate with A2A agent:">> \o e

\* The caller of handleStreamingResponse is routeToA2AAgent of the bot or
\* sendMessageWithPolling of the dialog.
Rethrow(e) == IF route = "polling" THEN PollingRethrow(e) ELSE RouteRethrow(e)

\* ------------------------------------------------------------ the actions
\* The loop is left without its finally.
Finally_NoCleanup == UNCHANGED <<timerActive, isCompleted>>

\* The finally of the event loop.
Finally ==
    /\ timerActive' = FALSE
    /\ isCompleted' = TRUE

\* The catch of handleStreamingResponse: handleRegularResponse is called and
\* suspends on its typing activity.
EnterFallback(e) ==
    /\ caught' = e
    /\ pending' = Call("typing", 322, 0, << >>)
    /\ outbox' = << >>
    /\ partIdx' = 0
    /\ pc' = "fb_typing"

\* An authentication error makes the routine drop the session itself.
Throw_InvalidatesSession(e) ==
    /\ thrown' = Rethrow(e)
    /\ pending' = NoCall
    /\ outbox' = << >>
    /\ pc' = "threw"
    /\ accessToken' = (accessToken /\ ~IsAuthError(e))
    /\ a2aClient' = (a2aClient /\ ~IsAuthError(e))

\* An error leaves handleRegularResponse, handleStreamingResponse and
\* routeToA2AAgent; the turn state is as it was.
Throw(e) ==
    /\ thrown' = Rethrow(e)
    /\ pending' = NoCall
    /\ outbox' = << >>
    /\ pc' = "threw"
    /\ UNCHANGED sessionVars

\* handleMessage up to its first await: the message goes to routeToA2AAgent,
\* which calls handleStreamingResponse, or to the dialog. When
\* routeToA2AAgent returns (pc = "returned"), handleMessage calls next() and
\* returns: the turn is over with route = "agent".
Receive ==
    /\ route = "received"
    /\ IF ShouldRoute(NormalizedText(userMessage) \in dialogCommands,
                      accessToken, a2aClient)
       THEN /\ route' = "agent"
            /\ pc' = "start"
       ELSE /\ route' = "dialog"
            /\ UNCHANGED pc
    /\ UNCHANGED <<userMessage, accessToken, a2aClient, dialogRuns, reported,
                   eventBudget, responses, dialogVars, streamState, consumed, partIdx, pending, outbox, reconVars,
                   isCompleted, timerActive, log, ticks, tickFails, caught,
                   thrown>>

\* The catch of handleMessage clears the session for every error.
AgentThrows_AlwaysInvalidates ==
    /\ route = "agent"
    /\ pc = "threw"
    /\ accessToken' = FALSE
    /\ a2aClient' = FALSE
    /\ route' = IF IsAuthError(thrown) THEN "dialog" ELSE "report"
    /\ UNCHANGED <<pc, userMessage, dialogRuns, reported, eventBudget, responses, dialogVars,
                   streamState, consumed, partIdx, pending, outbox, reconVars,
                   isCompleted, timerActive, log, ticks, tickFails, caught,
                   thrown>>

\* routeToA2AAgent threw: the catch of handleMessage.
AgentThrows ==
    /\ route = "agent"
    /\ pc = "threw"
    /\ IF IsAuthError(thrown)
       THEN /\ accessToken' = FALSE
            /\ a2aClient' = FALSE
            /\ route' = "dialog"
       ELSE /\ route' = "report"
            /\ UNCHANGED <<accessToken, a2aClient>>
    /\ UNCHANGED <<pc, userMessage, dialogRuns, reported, eventBudget, responses, dialogVars, streamState,
                   consumed, partIdx, pending, outbox, reconVars, isCompleted,
                   timerActive, log, ticks, tickFails, caught, thrown>>

\* After the error message handleMessage goes on to the dialog.
ReportError_FallsThrough(ok) ==
    /\ route = "report"
    /\ reported' = <<"Error communicating with agent:">> \o thrown
    /\ route' = IF ok THEN "dialog" ELSE "failed"
    /\ UNCHANGED <<pc, userMessage, accessToken, a2aClient, dialogRuns,
                   eventBudget, responses, dialogVars, streamState, consumed, partIdx, pending,
                   outbox, reconVars, isCompleted, timerActive, log, ticks,
                   tickFails, caught, thrown>>

\* The sendActivity of the error message returns, or throws out of
\* handleMessage.
ReportError(ok) ==
    /\ route = "report"
    /\ reported' = <<"Error communicating with agent:">> \o thrown
    /\ route' = IF ok THEN "done" ELSE "failed"
    /\ UNCHANGED <<pc, userMessage, accessToken, a2aClient, dialogRuns,
                   eventBudget, responses, dialogVars, streamState, consumed, partIdx, pending, outbox, reconVars,
                   isCompleted, timerActive, log, ticks, tickFails, caught,
                   thrown>>

\* this.dialog.run returns, or throws out of handleMessage.
DialogRun(ok) ==
    /\ route = "dialog"
    /\ dialogRuns' = dialogRuns + 1
    /\ route' = IF ok THEN "done" ELSE "failed"
    /\ UNCHANGED <<pc, userMessage, accessToken, a2aClient, reported,
                   eventBudget, responses, dialogVars, streamState, consumed, partIdx, pending, outbox, reconVars,
                   isCompleted, timerActive, log, ticks, tickFails, caught,
                   thrown>>

\* The initial typing activity, then sendMessageStream, the locals and
\* setInterval, up to the first await of the loop.
InitialTyping(ok) ==
    /\ pc = "start"
    /\ IF ok
       THEN /\ log' = log \o <<Entry(Call("typing", 126, 0, << >>), TRUE),
                               Entry(Call("stream", 128, 0, userMessage), TRUE)>>
            /\ streamState' = "open"
            /\ timerActive' = TRUE
            /\ pc' = "loop"
            /\ UNCHANGED <<pending, outbox, partIdx, caught, isCompleted>>
       ELSE /\ log' = Append(log, Entry(Call("typing", 126, 0, << >>), FALSE))
            /\ EnterFallback(ErrDisplay)
            /\ UNCHANGED <<streamState, timerActive, isCompleted>>
    /\ UNCHANGED <<turnVars, consumed, reconVars, ticks, tickFails, thrown>>

\* A typing activity that fails ends the streaming.
Tick_FailureStopsLoop(ok) ==
    /\ timerActive
    /\ ~isCompleted
    /\ ticks < MaxTicks
    /\ ticks' = ticks + 1
    /\ tickFails' = IF ok THEN tickFails ELSE tickFails + 1
    /\ isCompleted' = ~ok
    /\ UNCHANGED <<pc, turnVars, streamState, consumed, partIdx, pending,
                   outbox, reconVars, timerActive, log, caught, thrown>>

\* A callback of the typing interval.
Tick(ok) ==
    /\ timerActive
    /\ ~isCompleted
    /\ ticks < MaxTicks
    /\ ticks' = ticks + 1
    /\ tickFails' = IF ok THEN tickFails ELSE tickFails + 1
    /\ UNCHANGED <<pc, turnVars, streamState, consumed, partIdx, pending,
                   outbox, reconVars, isCompleted, timerActive, log, caught,
                   thrown>>

\* The loop suspends on the display call, or goes on to await the stream.
AwaitOrLoop(call, next) ==
    /\ pending' = call
    /\ partIdx' = IF call # NoCall THEN next ELSE 0
    /\ pc' = IF call # NoCall THEN "call" ELSE "loop"

\* The stream that has yielded prefix may yield ev next.
CanYield(prefix, ev) ==
    \/ /\ Len(prefix) < eventBudget
       /\ \A i \in 1..Len(prefix) : prefix[i] \in Events
       /\ ev \in Events
    \/ \E s \in Scripts :
          /\ Len(prefix) < Len(s)
          /\ SubSeq(s, 1, Len(prefix)) = prefix
          /\ s[Len(prefix) + 1] = ev

Take(ev) ==
    /\ pc = "loop"
    /\ CanYield(consumed, ev)
    /\ consumed' = Append(consumed, ev)
    /\ receivedEvents' = TRUE

\* The display call shows the text of the event, not the accumulated text.
OnMessage_RendersDelta(ev) ==
    /\ Take(ev)
    /\ ev.kind = "message"
    /\ LET t == FirstText(ev.parts)
       IN IF t # << >>
          THEN /\ accumulatedText' = accumulatedText \o t
               /\ updateCount' = updateCount + 1
               /\ AwaitOrLoop(DisplayCallFor(messageActivity, updateCount + 1,
                                  t, 165, 170), 0)
          ELSE /\ AwaitOrLoop(NoCall, 0)
               /\ UNCHANGED <<accumulatedText, updateCount>>
    /\ UNCHANGED <<turnVars, streamState, outbox, currentTask, lastArtifacts,
                   messageActivity, isCompleted, timerActive, log, ticks,
                   tickFails, caught, thrown>>

\* A message event: the text of its first part is a contribution.
OnMessage(ev) ==
    /\ Take(ev)
    /\ ev.kind = "message"
    /\ LET t == FirstText(ev.parts)
       IN IF t # << >>
          THEN /\ accumulatedText' = accumulatedText \o t
               /\ updateCount' = updateCount + 1
               /\ AwaitOrLoop(DisplayCallFor(messageActivity, updateCount + 1,
                                  accumulatedText \o t, 165, 170), 0)
          ELSE /\ AwaitOrLoop(NoCall, 0)
               /\ UNCHANGED <<accumulatedText, updateCount>>
    /\ UNCHANGED <<turnVars, streamState, outbox, currentTask, lastArtifacts,
                   messageActivity, isCompleted, timerActive, log, ticks,
                   tickFails, caught, thrown>>

\* A task event starts the text anew.
OnTask_ResetsText(ev) ==
    /\ Take(ev)
    /\ ev.kind = "task"
    /\ currentTask' = ev
    /\ lastArtifacts' = IF Len(ev.artifacts) > 0 THEN ev.artifacts
                                                 ELSE lastArtifacts
    /\ accumulatedText' = << >>
    /\ UNCHANGED <<pc, turnVars, streamState, partIdx, pending, outbox,
                   messageActivity, updateCount, isCompleted, timerActive,
                   log, ticks, tickFails, caught, thrown>>

\* A task event: it is kept, and its artifacts if it has any.
OnTask(ev) ==
    /\ Take(ev)
    /\ ev.kind = "task"
    /\ currentTask' = ev
    /\ lastArtifacts' = IF Len(ev.artifacts) > 0 THEN ev.artifacts
                                                 ELSE lastArtifacts
    /\ UNCHANGED <<pc, turnVars, streamState, partIdx, pending, outbox,
                   accumulatedText, messageActivity, updateCount, isCompleted,
                   timerActive, log, ticks, tickFails, caught, thrown>>

\* "completed" leaves the typing indicator running.
StopTyping_Forgotten(state) == UNCHANGED <<timerActive, isCompleted>>

\* On "completed": the typing indicator is stopped, then the update is sent.
StopTyping(state) ==
    IF state = "completed"
    THEN timerActive' = FALSE /\ isCompleted' = TRUE
    ELSE UNCHANGED <<timerActive, isCompleted>>

\* "completed" breaks out of the loop: the final display follows at once.
OnStatusUpdate_CompletedBreaks(ev) ==
    /\ Take(ev)
    /\ ev.kind = "status-update"
    /\ currentTask' = IF currentTask # NoTask
                      THEN [currentTask EXCEPT !.status = ev.status]
                      ELSE currentTask
    /\ IF ev.status.state = "completed"
       THEN /\ streamState' = "ended"
            /\ Finally
            /\ partIdx' = 0
            /\ pending' = FinalUpdate(accumulatedText, messageActivity)
            /\ outbox' = FinalSends(accumulatedText, messageActivity,
                                    currentTask', lastArtifacts, TRUE)
            /\ pc' = IF pending' # NoCall THEN "final"
                     ELSE IF outbox' # << >> THEN "render" ELSE "returned"
       ELSE /\ AwaitOrLoop(NoCall, 0)
            /\ UNCHANGED <<streamState, outbox, timerActive, isCompleted>>
    /\ UNCHANGED <<turnVars, accumulatedText, lastArtifacts, messageActivity,
                   updateCount, log, ticks, tickFails, caught, thrown>>

\* The status of the event is not stored in the task.
OnStatusUpdate_StatusIgnored(ev) ==
    /\ Take(ev)
    /\ ev.kind = "status-update"
    /\ currentTask' = currentTask
    /\ StopTyping(ev.status.state)
    /\ IF ev.status.state = "completed" /\ accumulatedText # << >>
          /\ messageActivity # 0
       THEN AwaitOrLoop(Call("update", 205, messageActivity,
                             Bot(accumulatedText)), 0)
       ELSE AwaitOrLoop(NoCall, 0)
    /\ UNCHANGED <<turnVars, streamState, outbox, accumulatedText,
                   lastArtifacts, messageActivity, updateCount, log, ticks,
                   tickFails, caught, thrown>>

\* A status-update: the status goes into the task when there is one.
OnStatusUpdate(ev) ==
    /\ Take(ev)
    /\ ev.kind = "status-update"
    /\ currentTask' = IF currentTask # NoTask
                      THEN [currentTask EXCEPT !.status = ev.status]
                      ELSE currentTask
    /\ StopTyping(ev.status.state)
    /\ IF ev.status.state = "completed" /\ accumulatedText # << >>
          /\ messageActivity # 0
       THEN AwaitOrLoop(Call("update", 205, messageActivity,
                             Bot(accumulatedText)), 0)
       ELSE AwaitOrLoop(NoCall, 0)
    /\ UNCHANGED <<turnVars, streamState, outbox, accumulatedText,
                   lastArtifacts, messageActivity, updateCount, log, ticks,
                   tickFails, caught, thrown>>

\* The part loop of an artifact-update from part k; at its end the artifact
\* is stored.
ArtifactStep(artifact, k, handle) ==
    LET r == ArtifactRun(artifact.parts, k, accumulatedText, updateCount, handle)
    IN /\ accumulatedText' = r.text
       /\ updateCount' = r.count
       /\ AwaitOrLoop(r.call, r.next)
       /\ lastArtifacts' = IF r.call = NoCall
                           THEN Append(lastArtifacts, artifact)
                           ELSE lastArtifacts

OnArtifactUpdate(ev) ==
    /\ Take(ev)
    /\ ev.kind = "artifact-update"
    /\ IF ev.artifact # NoArtifact /\ ev.artifact.hasParts
       THEN ArtifactStep(ev.artifact, 1, messageActivity)
       ELSE /\ AwaitOrLoop(NoCall, 0)
            /\ UNCHANGED <<accumulatedText, updateCount, lastArtifacts>>
    /\ UNCHANGED <<turnVars, streamState, outbox, currentTask,
                   messageActivity, isCompleted, timerActive, log, ticks,
                   tickFails, caught, thrown>>

\* After an awaited display call of the loop: the rest of the handler.
Resume(handle) ==
    IF partIdx > 0
    THEN ArtifactStep(Last(consumed).artifact, partIdx, handle)
    ELSE /\ AwaitOrLoop(NoCall, 0)
         /\ UNCHANGED <<accumulatedText, updateCount, lastArtifacts>>

\* The response of the first sendActivity is not kept.
CreateReturns_DropsHandle(ok) ==
    /\ pc = "call"
    /\ pending.op = "send"
    /\ log' = Append(log, Entry([pending EXCEPT !.id = IF ok THEN Len(log) + 1
                                                           ELSE 0], ok))
    /\ IF ok
       THEN /\ messageActivity' = 0
            /\ Resume(0)
            /\ UNCHANGED <<isCompleted, timerActive, caught, outbox>>
       ELSE /\ Finally
            /\ EnterFallback(ErrDisplay)
            /\ UNCHANGED <<accumulatedText, updateCount, lastArtifacts,
                           messageActivity>>
    /\ UNCHANGED <<turnVars, streamState, consumed, currentTask,
                   receivedEvents, ticks, tickFails, thrown>>

\* The sendActivity of the first message returns, or throws.
CreateReturns(ok) ==
    /\ pc = "call"
    /\ pending.op = "send"
    /\ log' = Append(log, Entry([pending EXCEPT !.id = IF ok THEN Len(log) + 1
                                                           ELSE 0], ok))
    /\ IF ok
       THEN /\ messageActivity' = Len(log) + 1
            /\ Resume(Len(log) + 1)
            /\ UNCHANGED <<isCompleted, timerActive, caught, outbox>>
       ELSE /\ Finally
            /\ EnterFallback(ErrDisplay)
            /\ UNCHANGED <<accumulatedText, updateCount, lastArtifacts,
                           messageActivity>>
    /\ UNCHANGED <<turnVars, streamState, consumed, currentTask,
                   receivedEvents, ticks, tickFails, thrown>>

\* A failed updateActivity of the loop ends the streaming like a failed
\* sendActivity.
UpdateReturns_FailureAborts(ok) ==
    /\ pc = "call"
    /\ pending.op = "update"
    /\ log' = Append(log, Entry(pending, ok))
    /\ IF ok
       THEN /\ Resume(messageActivity)
            /\ UNCHANGED <<isCompleted, timerActive, caught, outbox>>
       ELSE /\ Finally
            /\ EnterFallback(ErrDisplay)
            /\ UNCHANGED <<accumulatedText, updateCount, lastArtifacts>>
    /\ UNCHANGED <<turnVars, streamState, consumed, currentTask,
                   receivedEvents, messageActivity, ticks, tickFails, thrown>>

\* An updateActivity of the loop returns, or throws and is caught there.
UpdateReturns(ok) ==
    /\ pc = "call"
    /\ pending.op = "update"
    /\ log' = Append(log, Entry(pending, ok))
    /\ Resume(messageActivity)
    /\ UNCHANGED <<turnVars, streamState, consumed, outbox, currentTask,
                   receivedEvents, messageActivity, isCompleted, timerActive,
                   ticks, tickFails, caught, thrown>>

\* The stream is exhausted: finally, then the final display.
StreamEnds ==
    /\ pc = "loop"
    /\ streamState' = "ended"
    /\ Finally
    /\ pending' = FinalUpdate(accumulatedText, messageActivity)
    /\ outbox' = FinalSends(accumulatedText, messageActivity, currentTask,
                            lastArtifacts, receivedEvents)
    /\ pc' = IF pending' # NoCall THEN "final"
             ELSE IF outbox' # << >> THEN "render" ELSE "returned"
    /\ UNCHANGED <<turnVars, consumed, partIdx, reconVars, log, ticks,
                   tickFails, caught, thrown>>

\* The error of the stream is swallowed inside the loop, which goes on.
StreamRaises_Swallowed(e) ==
    /\ pc = "loop"
    /\ e \in StreamErrors
    /\ streamState = "open"
    /\ streamState' = "raised"
    /\ UNCHANGED <<pc, turnVars, consumed, partIdx, pending, outbox,
                   reconVars, isCompleted, timerActive, log, ticks, tickFails,
                   caught, thrown>>

\* The stream throws: finally, then the catch.
StreamRaises(e) ==
    /\ pc = "loop"
    /\ e \in StreamErrors
    /\ streamState' = "raised"
    /\ Finally
    /\ EnterFallback(e)
    /\ UNCHANGED <<turnVars, consumed, reconVars, log, ticks, tickFails,
                   thrown>>

\* A failed final update is only logged, like those of the loop.
FinalUpdateReturns_Swallowed(ok) ==
    /\ pc = "final"
    /\ log' = Append(log, Entry(pending, ok))
    /\ pending' = NoCall
    /\ outbox' = << >>
    /\ pc' = "returned"
    /\ UNCHANGED <<turnVars, streamState, consumed, partIdx, reconVars,
                   isCompleted, timerActive, ticks, tickFails, caught, thrown>>

\* The branches of the final display are not chained by else: the task
\* follows the text.
FinalUpdateReturns_ThenTask(ok) ==
    /\ pc = "final"
    /\ log' = Append(log, Entry(pending, ok))
    /\ pending' = NoCall
    /\ outbox' = (IF ok THEN << >>
                  ELSE <<Call("send", 270, 0, Bot(accumulatedText))>>)
                 \o FinalSends(<< >>, 0, currentTask, lastArtifacts, TRUE)
    /\ pc' = IF outbox' = << >> THEN "returned" ELSE "render"
    /\ UNCHANGED <<turnVars, streamState, consumed, partIdx, reconVars,
                   isCompleted, timerActive, ticks, tickFails, caught, thrown>>

\* The final updateActivity returns, or throws and the text is sent anew.
FinalUpdateReturns(ok) ==
    /\ pc = "final"
    /\ log' = Append(log, Entry(pending, ok))
    /\ pending' = NoCall
    /\ outbox' = IF ok THEN << >>
                 ELSE <<Call("send", 270, 0, Bot(accumulatedText))>>
    /\ pc' = IF ok THEN "returned" ELSE "render"
    /\ UNCHANGED <<turnVars, streamState, consumed, partIdx, reconVars,
                   isCompleted, timerActive, ticks, tickFails, caught, thrown>>

SendNext(ok) ==
    /\ outbox # << >>
    /\ log' = Append(log, Entry([Head(outbox) EXCEPT !.id = IF ok THEN Len(log) + 1
                                                                ELSE 0], ok))

\* A sendActivity of the final display returns, or throws into the catch.
Render(ok) ==
    /\ pc = "render"
    /\ SendNext(ok)
    /\ IF ok
       THEN /\ outbox' = Tail(outbox)
            /\ pc' = IF Tail(outbox) = << >> THEN "returned" ELSE "render"
            /\ UNCHANGED <<pending, partIdx, caught>>
       ELSE EnterFallback(ErrDisplay)
    /\ UNCHANGED <<turnVars, streamState, consumed, reconVars, isCompleted,
                   timerActive, ticks, tickFails, thrown>>

\* handleRegularResponse: its typing activity returns, or throws.
FallbackTyping(ok) ==
    /\ pc = "fb_typing"
    /\ log' = Append(log, Entry(pending, ok))
    /\ IF ok
       THEN /\ pending' = Call("sendMessage", 324, 0, userMessage)
            /\ pc' = "fb_send"
            /\ UNCHANGED <<outbox, thrown, sessionVars>>
       ELSE Throw(ErrDisplay)
    /\ UNCHANGED <<callerVars, streamState, consumed, partIdx, reconVars,
                   isCompleted, timerActive, ticks, tickFails, caught>>

\* A failed sendMessage is issued again.
FallbackResponse_Retry(r) ==
    /\ pc = "fb_send"
    /\ r \in responses
    /\ log' = Append(log, Entry(pending, r.kind = "result"))
    /\ IF r.kind = "result"
       THEN /\ pending' = NoCall
            /\ outbox' = RegularLines(r.result)
            /\ pc' = IF outbox' # << >> THEN "fb_render" ELSE "returned"
       ELSE UNCHANGED <<pending, outbox, pc>>
    /\ UNCHANGED <<turnVars, streamState, consumed, partIdx, reconVars,
                   isCompleted, timerActive, ticks, tickFails, caught, thrown>>

\* a2aClient.sendMessage throws, or answers.
FallbackResponse(r) ==
    /\ pc = "fb_send"
    /\ r \in responses
    /\ log' = Append(log, Entry(pending, r.kind = "result"))
    /\ IF r.kind = "result"
       THEN /\ pending' = NoCall
            /\ outbox' = RegularLines(r.result)
            /\ pc' = IF outbox' # << >> THEN "fb_render" ELSE "returned"
            /\ UNCHANGED <<thrown, sessionVars>>
       ELSE Throw(r.error)
    /\ UNCHANGED <<callerVars, streamState, consumed, partIdx, reconVars,
                   isCompleted, timerActive, ticks, tickFails, caught>>

\* A sendActivity of handleRegularResponse returns, or throws.
FallbackRender(ok) ==
    /\ pc = "fb_render"
    /\ SendNext(ok)
    /\ IF ok
       THEN /\ outbox' = Tail(outbox)
            /\ pc' = IF Tail(outbox) = << >> THEN "returned" ELSE "fb_render"
            /\ UNCHANGED <<pending, thrown, sessionVars>>
       ELSE Throw(ErrDisplay)
    /\ UNCHANGED <<callerVars, streamState, consumed, partIdx, reconVars,
                   isCompleted, timerActive, ticks, tickFails, caught>>

Next ==
    \/ \E ok \in BOOLEAN : InitialTyping(ok)
    \/ \E ok \in BOOLEAN : Tick(ok)
    \/ \E ev \in AllEvents : OnMessage(ev)
    \/ \E ev \in AllEvents : OnTask(ev)
    \/ \E ev \in AllEvents : OnStatusUpdate(ev)
    \/ \E ev \in AllEvents : OnArtifactUpdate(ev)
    \/ \E ok \in BOOLEAN : CreateReturns(ok)
    \/ \E ok \in BOOLEAN : UpdateReturns(ok)
    \/ StreamEnds
    \/ \E e \in StreamErrors : StreamRaises(e)
    \/ \E ok \in BOOLEAN : FinalUpdateReturns(ok)
    \/ \E ok \in BOOLEAN : Render(ok)
    \/ \E ok \in BOOLEAN : FallbackTyping(ok)
    \/ \E r \in AllResponses : FallbackResponse(r)
    \/ \E ok \in BOOLEAN : FallbackRender(ok)

Spec == Init /\ [][Next]_vars

\* A whole turn of handleMessage.
RouterNext ==
    \/ Receive
    \/ AgentThrows
    \/ \E ok \in BOOLEAN : ReportError(ok)
    \/ \E ok \in BOOLEAN : DialogRun(ok)
    \/ Next

RouterSpec == RouterInit /\ [][RouterNext]_vars

\* ------------------------------------------------- one run of MainDialog
\* The steps of the waterfall are functions of the turn state w (tok, cli,
\* url), the messages displayed so far (said) and the dialog stack (stage);
\* forward says that handleQueryResponse called sendMessageWithPolling. The
\* display calls of the steps return; cont is options.continueConversation.
Stages == {"empty", "oauth", "confirm", "oauth2", "query"}

\* What the prompt on top of the stack hands to the step after it: the OAuth
\* prompt a token response or nothing, the confirm prompt yes or no.
StepResults(s) ==
    CASE s \in {"oauth", "oauth2"} -> {"token", "none"}
      [] s = "confirm" -> {"yes", "no"}
      [] OTHER -> {"none"}

MsgLoggedIn == <<"You are now logged in.">>
MsgLoginFailed == <<"Login was not successful please try again.">>
MsgConfigured == <<"A2A client configured with authentication">>
MsgConfigError == <<"Error configuring A2A client">>
MsgReady == <<"A2A client is ready to make authenticated requests.">>
MsgGoodbye == <<"Goodbye! A2A session ended.">>
MsgNoClient == <<"A2A client not available.">>
MsgAgentCard == <<"agent card">>
AskSignIn == <<"Please Sign In">>
AskConnect == <<"Would you like to establish a connection to the agent?">>
AskMessage == <<"Enter your message for the A2A agent">>

Say(w, m) == [w EXCEPT !.said = Append(@, m)]
EndDialog(w) == [w EXCEPT !.stage = "empty"]

queryMessageStep(w) == [Say(w, AskMessage) EXCEPT !.stage = "query"]

displayToken(w, cont, result) ==
    IF cont
    THEN queryMessageStep(w)
    ELSE IF result = "token" /\ w.cli
    THEN queryMessageStep(Say(w, MsgReady))
    ELSE EndDialog(w)

\* beginDialog(OAUTH_PROMPT): the prompt ends at once with the token the
\* token service has for the user (silent), or shows the sign-in card and
\* waits.
ensureOAuth(w, cont, result, silent) ==
    IF cont
    THEN displayToken(w, cont, "none")
    ELSE IF result = "yes"
    THEN IF silent
         THEN displayToken(w, cont, "token")
         ELSE [Say(w, AskSignIn) EXCEPT !.stage = "oauth2"]
    ELSE EndDialog(w)

createA2AClientWithAuth(w, clientOk) ==
    IF clientOk
    THEN Say(Say([w EXCEPT !.cli = TRUE, !.url = TRUE], MsgAgentCard),
             MsgConfigured)
    ELSE Say(w, MsgConfigError)

\* A missing token response leaves a token in the turn state.
loginStep_StoresToken(w, cont, result, clientOk, silent) ==
    IF cont /\ w.tok
    THEN ensureOAuth(w, cont, "none", silent)
    ELSE IF result = "token"
    THEN [Say(createA2AClientWithAuth(
                  [Say(w, MsgLoggedIn) EXCEPT !.tok = TRUE], clientOk),
              AskConnect)
          EXCEPT !.stage = "confirm"]
    ELSE EndDialog([Say(w, MsgLoginFailed) EXCEPT !.tok = TRUE])

loginStep(w, cont, result, clientOk, silent) ==
    IF cont /\ w.tok
    THEN ensureOAuth(w, cont, "none", silent)
    ELSE IF result = "token"
    THEN [Say(createA2AClientWithAuth(
                  [Say(w, MsgLoggedIn) EXCEPT !.tok = TRUE], clientOk),
              AskConnect)
          EXCEPT !.stage = "confirm"]
    ELSE EndDialog(Say(w, MsgLoginFailed))

promptStep(w, cont, clientOk, silent) ==
    IF cont
    THEN loginStep(w, cont, "none", clientOk, silent)
    ELSE IF silent
    THEN loginStep(w, cont, "token", clientOk, silent)
    ELSE [Say(w, AskSignIn) EXCEPT !.stage = "oauth"]

\* handleQueryResponse up to its call of sendMessageWithPolling.
handleQueryResponse(w, text) ==
    IF ToLowerCase(text) = <<"e", "x", "i", "t">>
    THEN EndDialog(Say(w, MsgGoodbye))
    ELSE IF ~w.cli
    THEN EndDialog(Say(w, MsgNoClient))
    ELSE [w EXCEPT !.forward = TRUE]

\* The turn state and the dialog as the steps see them.
World ==
    [tok |-> accessToken, cli |-> a2aClient, url |-> serverUrl,
     said |-> said, stage |-> stage, forward |-> FALSE]

\* The steps have run: their effects are in the turn state.
Settle(w) ==
    /\ accessToken' = w.tok
    /\ a2aClient' = w.cli
    /\ serverUrl' = w.url
    /\ said' = w.said
    /\ stage' = w.stage

\* MainDialog.run is entered by handleMessage: the dialog waits at one of
\* its prompts or is not begun, and the turn state holds a client only with
\* its token and its URL. A text that is no dialog command comes here only
\* when the token or the client is missing.
DialogInit ==
    /\ pc = "idle"
    /\ route = "run"
    /\ userMessage \in DialogMessages
    /\ accessToken \in BOOLEAN
    /\ a2aClient \in BOOLEAN
    /\ serverUrl \in BOOLEAN
    /\ a2aClient => accessToken /\ serverUrl
    /\ ~ShouldRoute(NormalizedText(userMessage) \in dialogCommands,
                    accessToken, a2aClient)
    /\ dialogRuns = 1
    /\ reported = NoError
    /\ eventBudget = MaxDialogEvents
    /\ responses = Responses
    /\ stage \in Stages
    /\ promptResult \in StepResults(stage)
    /\ convState \in BOOLEAN
    /\ persisted \in BOOLEAN
    /\ persisted => convState
    /\ said = << >>
    /\ ReconcileInit

\* The turn state is left as handleMessage handed it over.
restoreA2AState_KeepsTurnState(ok) ==
    /\ route = "run"
    /\ route' = "steps"
    /\ UNCHANGED <<pc, userMessage, sessionVars, dialogRuns, reported,
                   eventBudget, responses, dialogVars, streamState,
                   consumed, partIdx, pending, outbox, reconVars,
                   isCompleted, timerActive, log, ticks, tickFails, caught,
                   thrown>>

\* restoreA2AState: the token and the URL are put back before the client is
\* made again, which may fail.
restoreA2AState(ok) ==
    /\ route = "run"
    /\ IF convState /\ persisted
       THEN /\ accessToken' = TRUE
            /\ serverUrl' = TRUE
            /\ a2aClient' = (a2aClient \/ ok)
       ELSE UNCHANGED <<accessToken, a2aClient, serverUrl>>
    /\ route' = "steps"
    /\ UNCHANGED <<pc, userMessage, dialogRuns, reported, eventBudget,
                   responses, stage, promptResult, convState, persisted,
                   said, streamState, consumed, partIdx, pending, outbox,
                   reconVars, isCompleted, timerActive, log, ticks,
                   tickFails, caught, thrown>>

\* continueDialog, or beginDialog on an empty stack: the steps run until
\* one waits for a prompt, ends the dialog or forwards the text.
RunSteps(clientOk, silent) ==
    /\ route = "steps"
    /\ LET w == CASE stage = "empty" ->
                       promptStep(World, FALSE, clientOk, silent)
                  [] stage = "oauth" ->
                       loginStep(World, FALSE, promptResult, clientOk,
                                 silent)
                  [] stage = "confirm" ->
                       ensureOAuth(World, FALSE, promptResult, silent)
                  [] stage = "oauth2" ->
                       displayToken(World, FALSE, promptResult)
                  [] stage = "query" ->
                       handleQueryResponse(World, userMessage)
       IN /\ Settle(w)
          /\ route' = IF w.forward THEN "polling" ELSE "persist"
          /\ pc' = IF w.forward THEN "start" ELSE pc
    /\ UNCHANGED <<userMessage, dialogRuns, reported, eventBudget,
                   responses, promptResult, convState, persisted,
                   streamState, consumed, partIdx, pending, outbox,
                   reconVars, isCompleted, timerActive, log, ticks,
                   tickFails, caught, thrown>>

\* sendMessageWithPolling returned: replaceDialog starts the waterfall
\* again with continueConversation.
PollingReturns(clientOk, silent) ==
    /\ route = "polling"
    /\ pc = "returned"
    /\ Settle(promptStep(World, TRUE, clientOk, silent))
    /\ route' = "persist"
    /\ UNCHANGED <<pc, userMessage, dialogRuns, reported, eventBudget,
                   responses, promptResult, convState, persisted,
                   streamState, consumed, partIdx, pending, outbox,
                   reconVars, isCompleted, timerActive, log, ticks,
                   tickFails, caught, thrown>>

\* The catch reports the error and starts the waterfall again.
PollingThrows_Restarts ==
    /\ route = "polling"
    /\ pc = "threw"
    /\ said' = Append(Append(said, <<"Error processing your message:">> \o thrown),
                      AskMessage)
    /\ stage' = "query"
    /\ route' = "persist"
    /\ UNCHANGED <<pc, userMessage, sessionVars, dialogRuns, reported,
                   eventBudget, responses, promptResult, convState,
                   persisted, serverUrl, streamState, consumed, partIdx,
                   pending, outbox, reconVars, isCompleted, timerActive,
                   log, ticks, tickFails, caught, thrown>>

\* sendMessageWithPolling threw: the catch of handleQueryResponse.
PollingThrows ==
    /\ route = "polling"
    /\ pc = "threw"
    /\ said' = Append(said, <<"Error processing your message:">> \o thrown)
    /\ stage' = "empty"
    /\ route' = "persist"
    /\ UNCHANGED <<pc, userMessage, sessionVars, dialogRuns, reported,
                   eventBudget, responses, promptResult, convState,
                   persisted, serverUrl, streamState, consumed, partIdx,
                   pending, outbox, reconVars, isCompleted, timerActive,
                   log, ticks, tickFails, caught, thrown>>

persistA2AState ==
    /\ route = "persist"
    /\ persisted' = (persisted \/ (convState /\ accessToken /\ serverUrl))
    /\ route' = "over"
    /\ UNCHANGED <<pc, userMessage, sessionVars, dialogRuns, reported,
                   eventBudget, responses, stage, promptResult, convState,
                   serverUrl, said, streamState, consumed, partIdx,
                   pending, outbox, reconVars, isCompleted, timerActive,
                   log, ticks, tickFails, caught, thrown>>

DialogNext ==
    \/ \E ok \in BOOLEAN : restoreA2AState(ok)
    \/ \E clientOk \in BOOLEAN, silent \in BOOLEAN :
           RunSteps(clientOk, silent)
    \/ \E clientOk \in BOOLEAN, silent \in BOOLEAN :
           PollingReturns(clientOk, silent)
    \/ PollingThrows
    \/ persistA2AState
    \/ Next

DialogSpec == DialogInit /\ [][DialogNext]_vars

\* ------------------------------- the catch of handleMessage and the dialog
\* routeToA2AAgent has thrown into the catch of handleMessage: the turn
\* state still holds the token and the client the message was routed with,
\* the dialog waits where an earlier turn left it, and the conversation
\* state holds what an earlier run of the dialog persisted. The locals of
\* the call that threw are gone.
RecoverInit ==
    /\ pc = "threw"
    /\ thrown \in {RouteRethrow(ErrUnauthorized), ErrNetwork}
    /\ route = "agent"
    /\ userMessage \in {t \in UserMessages : NormalizedText(t) \notin dialogCommands}
    /\ accessToken = TRUE
    /\ a2aClient = TRUE
    /\ serverUrl \in BOOLEAN
    /\ dialogRuns = 0
    /\ reported = NoError
    /\ eventBudget = MaxDialogEvents
    /\ responses = Responses
    /\ stage \in Stages
    /\ promptResult \in StepResults(stage)
    /\ convState \in BOOLEAN
    /\ persisted \in BOOLEAN
    /\ persisted => convState
    /\ said = << >>
    /\ streamState = "unopened"
    /\ consumed = << >>
    /\ partIdx = 0
    /\ pending = NoCall
    /\ outbox = << >>
    /\ accumulatedText = << >>
    /\ currentTask = NoTask
    /\ receivedEvents = FALSE
    /\ lastArtifacts = << >>
    /\ messageActivity = 0
    /\ updateCount = 0
    /\ isCompleted = FALSE
    /\ timerActive = FALSE
    /\ log = << >>
    /\ ticks = 0
    /\ tickFails = 0
    /\ caught = NoError

\* handleMessage falls through its catch to this.dialog.run: the error of
\* the catch is out of scope and MainDialog.run is entered.
EnterDialog ==
    /\ route = "dialog"
    /\ route' = "run"
    /\ dialogRuns' = dialogRuns + 1
    /\ pc' = "idle"
    /\ thrown' = NoError
    /\ UNCHANGED <<userMessage, sessionVars, reported, eventBudget,
                   responses, dialogVars, streamState, consumed, partIdx,
                   pending, outbox, reconVars, isCompleted, timerActive,
                   log, ticks, tickFails, caught>>

RecoverNext ==
    \/ AgentThrows
    \/ \E ok \in BOOLEAN : ReportError(ok)
    \/ EnterDialog
    \/ DialogNext

RecoverySpec == RecoverInit /\ [][RecoverNext]_vars

\* ------------------------------------------------------------- properties
LogIdx == 1..Len(log)
Updates == {i \in LogIdx : log[i].op = "update"}
AgentCalls(op) == {i \in LogIdx : log[i].op = op}
\* Messages that show the accumulated text and were sent by the streaming
\* routine.
StreamTextSends ==
    {i \in LogIdx : log[i].op = "send" /\ log[i].ok
                    /\ log[i].site \in {165, 227, 270, 274}}
AllOk == \A i \in LogIdx : log[i].ok
Saw(states) ==
    \E i \in 1..Len(consumed) :
        consumed[i].kind = "status-update" /\ consumed[i].status.state \in states
SawCompleted == Saw({"completed"})
CeilDiv(a, b) == (a + b - 1) \div b
\* The event loop was entered and has been left.
LoopLeft ==
    \/ streamState \in {"ended", "raised"}
    \/ streamState = "open" /\ pc \notin {"loop", "call"}

\* C1: while no updateActivity has failed, the streaming routine sends at most
\* one message showing the accumulated text; it is the one sent at the first
\* text contribution and kept as messageActivity; every updateActivity is an
\* update of that message, made after it was sent; and whenever text has been
\* accumulated and the routine has not aborted (nor is still awaiting that
\* first send), exactly one such message exists.
C1_SingleDisplayMessage ==
    (\A u \in Updates : log[u].ok) =>
        /\ Cardinality(StreamTextSends) <= 1
        /\ \A c \in StreamTextSends :
              /\ log[c].site \in {165, 227}
              /\ log[c].id = c
              /\ messageActivity = c
              /\ log[c].text = Bot(SubSeq(accumulatedText, 1, 1))
        /\ \A u \in Updates :
              \E c \in StreamTextSends : c < u /\ log[u].id = c
        /\ (accumulatedText # << >> /\ caught = NoError
            /\ ~(pc = "call" /\ pending.op = "send"))
               => Cardinality(StreamTextSends) = 1

C1_Witness ==
    /\ pc = "returned"
    /\ caught = NoError
    /\ updateCount >= UPDATE_INTERVAL
    /\ Cardinality(Updates) >= 2
    /\ \A u \in Updates : log[u].ok
    /\ Cardinality(StreamTextSends) = 1

\* C2: the number of updateActivity calls of one invocation is at most
\* ceil(updateCount / 5) + 1.
C2_UpdateBound ==
    Cardinality(Updates) <= CeilDiv(updateCount, UPDATE_INTERVAL) + 1

\* C3: the final display is made at most once per invocation: by the
\* "completed" branch of the loop (line 205) or after the loop (lines 263,
\* 274, 278, 301), never by both and never twice.
C3_FinalizationOnce ==
    Cardinality({i \in LogIdx : log[i].site \in {205, 263, 274, 278, 301}}) <= 1

\* C4: once a "completed" status-update has been taken from the stream the
\* interval is cleared and isCompleted is set, already while the forced
\* update of that handler is awaited, and no timer callback sends a typing
\* activity from then on.
C4_CompletedStopsTyping ==
    [][/\ SawCompleted' => (~timerActive' /\ isCompleted')
       /\ SawCompleted => ticks' = ticks]_vars

C4_Witness ==
    /\ SawCompleted
    /\ ticks > 0
    /\ pc = "call"
    /\ pending.site = 205

\* C5: once a status-update with state completed, failed or canceled has
\* been taken, no timer callback sends a typing activity and no further
\* updateActivity is started.
C5_TerminalStopsLoop ==
    [][Saw({"completed", "failed", "canceled"}) =>
          /\ ticks' = ticks
          /\ pending'.op = "update" => pending' = pending]_vars

\* C6: whenever the event loop has been left (exhaustion, or an error of the
\* stream or of the handling of an event) the interval is cleared and
\* isCompleted is true, and no timer callback sends a typing activity.
C6_CleanupOnEveryExit ==
    [][/\ LoopLeft' => (~timerActive' /\ isCompleted')
       /\ LoopLeft => ticks' = ticks]_vars

C6_Witness ==
    /\ LoopLeft
    /\ streamState = "open"
    /\ caught = ErrDisplay
    /\ ticks > 0
    /\ Len(consumed) = 2

\* C7: when the only calls that failed are typing activities of the
\* liveness signal (the initial one of line 126, or a timer callback's),
\* nothing is caught, no sendMessage is issued and nothing is thrown.
C7_LivenessFailureSwallowed ==
    (/\ \A i \in LogIdx : ~log[i].ok => log[i].site = 126
     /\ streamState # "raised")
        => /\ caught = NoError
           /\ thrown = NoError
           /\ pc \notin {"fb_typing", "fb_send", "fb_render", "threw"}
           /\ AgentCalls("sendMessage") = {}

\* C8: when the stream throws, the loop is left at once: the interval is
\* cleared, the catch holds the stream's error and the routine is in its
\* fallback or finished; from then on no event is taken, the accumulated
\* state is unchanged, no final display of the streaming routine is made and
\* sendMessageStream is not called again.
C8_StreamFailureAborts ==
    [][/\ streamState' = "raised" =>
             /\ ~timerActive' /\ isCompleted'
             /\ caught' \in StreamErrors
             /\ pc' \in {"fb_typing", "fb_send", "fb_render", "returned", "threw"}
             /\ \A i \in 1..Len(log') :
                   log'[i].site \notin {263, 270, 274, 278, 283, 287, 289, 298, 301}
             /\ Cardinality({i \in 1..Len(log') : log'[i].op = "stream"}) = 1
       /\ streamState = "raised" =>
             /\ streamState' = "raised"
             /\ consumed' = consumed
             /\ UNCHANGED reconVars
             /\ caught' = caught
             /\ ticks' = ticks]_vars

C8_Witness ==
    /\ streamState = "raised"
    /\ Len(consumed) = 2
    /\ caught = ErrNetwork
    /\ ticks > 0
    /\ pc = "returned"

C10_ResultDisplays ==
    {<<Bot(<<"answer">>)>>,
     <<Bot(<<"No text content">>)>>,
     <<<<"task:", "t9", "working">>, <<"artifact:", "r1">>, <<"text:", "draft">>,
       <<"file:", "unnamed">>, <<"artifact:", "log">>, <<"file:", "out.txt">>,
       <<"info:", "queued">>, <<"pending:", "working">>>>}

\* C10: the stream yields one message with text "partial" and throws, and no
\* display call fails: one message with the text "partial" was sent, then
\* handleRegularResponse sends the same user message once and displays its
\* result as new activities of its own, with the result's content alone; the
\* streamed message is never updated.
C10_PartialThenFallback ==
    (consumed = <<MsgPartial>> /\ streamState = "raised" /\ pc = "returned"
     /\ AllOk)
       => /\ Len(log) > 5
          /\ SubSeq(log, 1, 5) =
                <<Entry(Call("typing", 126, 0, << >>), TRUE),
                  Entry(Call("stream", 128, 0, userMessage), TRUE),
                  Entry(Call("send", 165, 3, Bot(<<"partial">>)), TRUE),
                  Entry(Call("typing", 322, 0, << >>), TRUE),
                  Entry(Call("sendMessage", 324, 0, userMessage), TRUE)>>
          /\ \A i \in 6..Len(log) :
                /\ log[i].op = "send"
                /\ log[i].id = i
                /\ log[i].site \in 334..361
          /\ [k \in 1..(Len(log) - 5) |-> log[k + 5].text] \in C10_ResultDisplays
          /\ Updates = {}
          /\ messageActivity = 3
          /\ accumulatedText = <<"partial">>

C10_Witness ==
    /\ consumed = <<MsgPartial>>
    /\ streamState = "raised"
    /\ pc = "returned"
    /\ AllOk
    /\ Len(log) = 6
    /\ log[6].text = Bot(<<"answer">>)

\* C11: after a stream that was consumed to its end without throwing, the
\* synchronous fallback is not run: no sendMessage is issued or in flight.
C11_FallbackOnlyOnStreamFailure ==
    streamState = "ended" =>
        /\ AgentCalls("sendMessage") = {}
        /\ pc \notin {"fb_typing", "fb_send", "fb_render", "threw"}

\* The step in which an updateActivity is found to have failed.
UpdateFailsNow ==
    /\ Len(log') = Len(log) + 1
    /\ Last(log').op = "update"
    /\ ~Last(log').ok

\* C12 as claimed: every failed updateActivity is followed by one new message
\* with the text of the failed update (sent next, or the next to be sent).
C12_SubstitutePerFailedUpdate ==
    \A u \in Updates :
        ~log[u].ok =>
            IF u < Len(log)
            THEN log[u + 1].op = "send" /\ log[u + 1].text = log[u].text
            ELSE outbox # << >> /\ Head(outbox).op = "send"
                 /\ Head(outbox).text = log[u].text

\* C12, amended: a failed updateActivity is never caught by the outer catch
\* nor thrown to the caller; when it is the final update after the loop
\* (line 263) exactly one new message with the same text is sent in its place
\* (line 270); when it is a periodic update (lines 170, 231) or the forced one
\* on "completed" (line 205) nothing is sent in its place, the loop goes on
\* and the accumulated text, the count and the message id are unchanged.
C12_SubstituteOnlyForFinalUpdate ==
    [][UpdateFailsNow =>
          /\ caught' = caught /\ thrown' = thrown
          /\ messageActivity' = messageActivity
          /\ IF Last(log').site = 263
             THEN /\ outbox' = <<Call("send", 270, 0, Last(log').text)>>
                  /\ pc' = "render"
             ELSE /\ outbox' = << >>
                  /\ pc' \in {"loop", "call"}
                  /\ pending'.site # 270]_vars

C12_Witness ==
    /\ pc = "returned"
    /\ caught = NoError
    /\ \E u \in Updates : log[u].site = 205 /\ ~log[u].ok
                          /\ log[u + 1].site = 263 /\ ~log[u + 1].ok
                          /\ log[u + 2].site = 270 /\ log[u + 2].ok
                          /\ Len(log) = u + 2

\* C13: the stream yields no event and closes, and no display call fails:
\* the calls made are the initial typing activity, sendMessageStream and one
\* "No response received" notice; no message is kept for updates, no
\* updateActivity and no sendMessage is made.
C13_EmptyStream ==
    (consumed = << >> /\ streamState = "ended" /\ AllOk) =>
        LET opened == <<Entry(Call("typing", 126, 0, << >>), TRUE),
                        Entry(Call("stream", 128, 0, userMessage), TRUE)>>
            notice == Call("send", 301, 0, <<"No response received from agent.">>)
        IN /\ pc \in {"render", "returned"}
           /\ pc = "render" => log = opened /\ outbox = <<notice>>
           /\ pc = "returned" =>
                 log = Append(opened, Entry([notice EXCEPT !.id = 3], TRUE))
           /\ messageActivity = 0
           /\ accumulatedText = << >>
           /\ caught = NoError

C13_Witness ==
    /\ consumed = << >>
    /\ streamState = "ended"
    /\ pc = "returned"
    /\ AllOk
    /\ Len(log) = 3
    /\ ticks > 0

IsPrefix(p, q) == Len(p) <= Len(q) /\ SubSeq(q, 1, Len(p)) = p

\* C14: the stream yields Task{t1, working}, ArtifactUpdate{a1, "Hello "},
\* ArtifactUpdate{a1, "World"}, StatusUpdate{completed} and closes, and no
\* display call fails: the message sent on the first artifact text, with the
\* text "Hello ", is the only one; the second artifact text causes no
\* updateActivity; every updateActivity made shows "Hello World" on that
\* message, and the last call of the invocation is one; from the
\* StatusUpdate on the interval is cleared.
C14_HelloWorldScenario ==
    (IsPrefix(consumed, ScriptHello) /\ Len(consumed) >= 2 /\ AllOk
        /\ (streamState = "open" \/ (streamState = "ended" /\ consumed = ScriptHello))) =>
        /\ Cardinality(StreamTextSends) <= 1
        /\ (pending.op = "none" \/ Len(consumed) > 2) =>
              \E i \in StreamTextSends :
                 /\ log[i].site = 227
                 /\ log[i].text = Bot(<<"Hello ">>)
                 /\ messageActivity = i
        /\ Len(consumed) <= 3 => Updates = {} /\ pending.op # "update"
        /\ \A u \in Updates :
              /\ log[u].id = messageActivity
              /\ log[u].text = Bot(<<"Hello ", "World">>)
        /\ consumed = ScriptHello => ~timerActive /\ isCompleted
        /\ (consumed = ScriptHello /\ pc = "returned") =>
              /\ Last(log).op = "update"
              /\ Last(log).site = 263
              /\ accumulatedText = <<"Hello ", "World">>
              /\ caught = NoError

C14_Witness ==
    /\ consumed = ScriptHello
    /\ AllOk
    /\ pc = "returned"
    /\ streamState = "ended"
    /\ ticks > 0
    /\ Last(log).text = Bot(<<"Hello ", "World">>)

RECURSIVE TextOfParts(_)
TextOfParts(parts) ==
    IF parts = << >> THEN << >>
    ELSE (IF Head(parts).kind = "text" THEN Head(parts).text ELSE << >>)
         \o TextOfParts(Tail(parts))
RECURSIVE AllText(_)
AllText(events) ==
    IF events = << >> THEN << >>
    ELSE LET ev == Head(events)
         IN (CASE ev.kind = "message" -> TextOfParts(ev.parts)
               [] ev.kind = "artifact-update" -> TextOfParts(ev.artifact.parts)
               [] OTHER -> << >>)
            \o AllText(Tail(events))

\* C15: once the stream is exhausted, accumulatedText is the concatenation,
\* in arrival order, of all Text parts of every Message and every
\* ArtifactUpdate received; File parts contribute nothing.
C15_AllTextPartsAccumulated ==
    streamState = "ended" => accumulatedText = AllText(consumed)

\* C16: a Task event that carries a non-empty artifact list appends that list
\* to the accumulated artifacts; the artifacts accumulated before it are
\* still present, in front of the new ones.
C16_TaskArtifactsAppended ==
    [][(consumed' # consumed /\ Last(consumed').kind = "task"
            /\ Last(consumed').artifacts # << >>) =>
          lastArtifacts' = lastArtifacts \o Last(consumed').artifacts]_vars

RECURSIVE UpdatesAfterLastTask(_)
\* The artifacts of the ArtifactUpdate events that follow the last Task event.
UpdatesAfterLastTask(events) ==
    IF events = << >> THEN << >>
    ELSE LET ev == events[Len(events)]
             before == SubSeq(events, 1, Len(events) - 1)
         IN CASE ev.kind = "task" -> << >>
              [] ev.kind = "artifact-update" ->
                     Append(UpdatesAfterLastTask(before), ev.artifact)
              [] OTHER -> UpdatesAfterLastTask(before)

\* C17: every ArtifactUpdate appends its artifact, with or without text
\* parts or parts at all and whatever its id: once the stream is exhausted,
\* the artifacts of the n ArtifactUpdate events received since the last Task
\* are the last n entries of the accumulated artifacts, in arrival order.
C17_EveryArtifactAppended ==
    streamState = "ended" =>
        LET expected == UpdatesAfterLastTask(consumed)
            n == Len(expected)
            m == Len(lastArtifacts)
        IN m >= n /\ SubSeq(lastArtifacts, m - n + 1, m) = expected

\* The texts of the calls made at the given source lines, in call order.
RECURSIVE TextsAt(_, _)
TextsAt(entries, sites) ==
    IF entries = << >> THEN << >>
    ELSE (IF Head(entries).site \in sites THEN <<Head(entries).text>> ELSE << >>)
         \o TextsAt(Tail(entries), sites)

C18_TwoArtifactLines ==
    <<<<"artifact:", "b1">>, <<"text:", "one">>, <<"file:", "f.txt">>,
      <<"artifact:", "notes">>, <<"file:", "unnamed">>, <<"text:", "two">>>>

\* C18: when no display call fails, the artifact lines of the task summary
\* follow the order of the accumulated artifacts, and for each artifact the
\* name (or the id when it has no name) comes first and then one line per
\* part in the order of the parts, a Text part with its content and a File
\* part with its filename, or "unnamed" when it has none; this holds for the
\* summary of handleStreamingResponse and for that of handleRegularResponse.
C18_ArtifactsRenderedInOrder ==
    (pc = "returned" /\ AllOk) =>
        /\ (streamState = "ended" /\ IsPrefix(consumed, ScriptTaskFirst)
               /\ Len(consumed) \in {1, 2}) =>
              TextsAt(log, {283, 287, 289}) = C18_TwoArtifactLines
        /\ (streamState = "ended" /\ consumed = ScriptTaskFirst) =>
              TextsAt(log, {283, 287, 289}) =
                 C18_TwoArtifactLines
                 \o <<<<"artifact:", "a3">>, <<"file:", "f.bin">>>>
        /\ (streamState = "ended" /\ consumed = ScriptTaskLast) =>
              TextsAt(log, {283, 287, 289}) = C18_TwoArtifactLines
        /\ (\E i \in LogIdx : log[i].site = 336) =>
              TextsAt(log, {341, 345, 347}) =
                 <<<<"artifact:", "r1">>, <<"text:", "draft">>,
                   <<"file:", "unnamed">>, <<"artifact:", "log">>,
                   <<"file:", "out.txt">>>>

C18_Witness ==
    /\ pc = "returned"
    /\ AllOk
    /\ streamState = "ended"
    /\ consumed = ScriptTaskFirst
    /\ Last(log).text = <<"info:", "half way">>
    /\ Len(TextsAt(log, {283, 287, 289})) = 8

C18_FallbackWitness ==
    /\ pc = "returned"
    /\ AllOk
    /\ streamState = "raised"
    /\ Len(TextsAt(log, {341, 345, 347})) = 5

\* The turn of handleMessage is over.
TurnOver ==
    \/ route \in {"done", "failed"}
    \/ route = "agent" /\ pc = "returned"

C19_ControlTexts == {TxtLogin, TxtExit, TxtLogout}

C20_OtherTexts == {TxtHi, TxtExitQ}

\* C20: for a text that is no dialog command ("Hi", "exit?"), handleMessage
\* enters routeToA2AAgent exactly when the turn state holds both a token and
\* a client; otherwise it runs the dialog, once, and nothing is sent to the
\* agent in that turn; and when routeToA2AAgent returns without an error the
\* dialog is not run in that turn.
C20_RoutedIffTokenAndClient ==
    /\ [][(route = "received" /\ userMessage \in C20_OtherTexts) =>
            IF accessToken /\ a2aClient
            THEN route' = "agent" /\ pc' = "start"
            ELSE route' = "dialog" /\ pc' = "idle"]_vars
    /\ [](userMessage \in C20_OtherTexts =>
            /\ pc = "idle" =>
                  /\ log = << >>
                  /\ pending = NoCall
                  /\ route \in {"received", "dialog", "done", "failed"}
                  /\ dialogRuns = (IF route \in {"done", "failed"} THEN 1 ELSE 0)
            /\ pc = "returned" => route = "agent" /\ dialogRuns = 0
            /\ dialogRuns > 0 /\ pc # "idle" => pc = "threw" /\ IsAuthError(thrown))

C20_Witness ==
    /\ userMessage = TxtExitQ
    /\ TurnOver
    /\ pc = "returned"
    /\ accessToken
    /\ a2aClient
    /\ dialogRuns = 0
    /\ AgentCalls("stream") # {}

C20_DialogWitness ==
    /\ userMessage = TxtHi
    /\ accessToken
    /\ ~a2aClient
    /\ route = "done"
    /\ dialogRuns = 1
    /\ log = << >>

C22_OtherErrors == {ErrNetwork, ErrDisplay}

\* C22: when routeToA2AAgent threw an error that is no authentication error
\* (a network error of sendMessage, a failed display call), handleMessage
\* sends the error message and its turn ends: dialog.run is not called and
\* the turn state still holds the token and the client.
C22_OtherFailureReported ==
    (pc = "threw" /\ thrown \in C22_OtherErrors) =>
        /\ accessToken
        /\ a2aClient
        /\ dialogRuns = 0
        /\ route \in {"agent", "report", "done", "failed"}
        /\ reported = (IF route \in {"done", "failed"}
                       THEN <<"Error communicating with agent:">> \o thrown
                       ELSE NoError)

C22_Witness ==
    /\ pc = "threw"
    /\ thrown = ErrNetwork
    /\ route = "done"
    /\ reported = <<"Error communicating with agent:", "ECONNRESET">>
    /\ accessToken
    /\ a2aClient

\* C23 as stated: when the turn is over, exactly one of these was done: the
\* message was forwarded to routeToA2AAgent, the dialog was run, an error
\* was reported.
C23_ExactlyOneOutcome ==
    TurnOver =>
        Cardinality({k \in {"forward", "dialog", "report"} :
                        \/ k = "forward" /\ pc # "idle"
                        \/ k = "dialog" /\ dialogRuns > 0
                        \/ k = "report" /\ reported # NoError}) = 1

\* C23: handleMessage first either forwards the message or runs the
\* dialog, never both; a second operation follows only a forwarding that
\* threw: the dialog, once, after an authentication error, the error report
\* after any other error, never both of them.
C23_OneDecisionOneRecovery ==
    /\ dialogRuns <= 1
    /\ ~(dialogRuns > 0 /\ reported # NoError)
    /\ TurnOver =>
          \/ pc = "returned" /\ dialogRuns = 0 /\ reported = NoError
          \/ pc = "idle" /\ dialogRuns = 1 /\ reported = NoError
          \/ /\ pc = "threw"
             /\ Includes(thrown, "401")
             /\ dialogRuns = 1
             /\ reported = NoError
          \/ /\ pc = "threw"
             /\ thrown \in C22_OtherErrors
             /\ dialogRuns = 0
             /\ reported # NoError

C23_Witness ==
    /\ TurnOver
    /\ pc = "threw"
    /\ Includes(thrown, "401")
    /\ AgentCalls("stream") # {}
    /\ dialogRuns = 1

\* The calls made at the given source lines.
At(sites) == {i \in LogIdx : log[i].site \in sites}

\* C24: handleRegularResponse has displayed a result and no display call
\* failed: after a task line, the notice that the agent will notify is sent
\* exactly when the task's state is none of completed, failed and canceled,
\* and it is the last activity; a message result gives one activity, the
\* last of the invocation, and no task line, artifact line, status message
\* or notice.
C24_NoticeIffNotTerminal ==
    (pc = "returned" /\ AllOk /\ At({324}) # {}) =>
        /\ Cardinality(At({334, 336})) = 1
        /\ \A i \in At({336}) :
              /\ At({334}) = {}
              /\ Cardinality(At({361})) =
                    (IF log[i].text[3] \in {"completed", "failed", "canceled"}
                     THEN 0 ELSE 1)
              /\ \A j \in At({361}) :
                    /\ j = Len(log)
                    /\ log[j].text = <<"pending:", log[i].text[3]>>
        /\ \A i \in At({334}) :
              /\ i = Len(log)
              /\ At({336, 341, 345, 347, 356, 361}) = {}
              /\ log[i - 1].site = 324

C24_Witness ==
    /\ pc = "returned"
    /\ AllOk
    /\ \E i \in At({336}) : log[i].text = <<"task:", "t8", "completed">>
    /\ At({361}) = {}

C24_NoticeWitness ==
    /\ pc = "returned"
    /\ AllOk
    /\ \E i \in At({336}) : log[i].text = <<"task:", "t9", "working">>
    /\ Last(log).text = <<"pending:", "working">>

\* C25: handleStreamingResponse and handleRegularResponse leave the token
\* and the client of the turn state alone: from the call of routeToA2AAgent
\* to its return or throw, on every path, both are what they were when
\* handleMessage routed the message; the only step that changes them is the
\* catch of handleMessage after an authentication error.
C25_ReconcilerKeepsSession ==
    /\ [](route = "agent" => accessToken /\ a2aClient)
    /\ [][(accessToken' # accessToken \/ a2aClient' # a2aClient) =>
            /\ route = "agent"
            /\ pc = "threw"
            /\ Includes(thrown, "401")
            /\ route' = "dialog"]_vars

C25_Witness ==
    /\ route = "agent"
    /\ pc = "threw"
    /\ Includes(thrown, "401")
    /\ caught # NoError
    /\ accessToken
    /\ a2aClient

\* C28: a callback of the typing interval, whether its sendActivity succeeds
\* or fails, changes nothing of the invocation but the count of callbacks:
\* the position of the main flow, the stream, the locals of
\* handleStreamingResponse, the awaited call, the calls made and the errors
\* are what they were, so the main flow goes on as if no callback had run.
C28_TickChangesNothing ==
    [][(ticks' # ticks \/ tickFails' # tickFails) =>
          /\ UNCHANGED <<pc, streamState, consumed, partIdx, pending, outbox,
                         reconVars, isCompleted, timerActive, log, caught,
                         thrown>>
          /\ ticks' = ticks + 1]_vars

C28_Witness ==
    /\ tickFails > 0
    /\ pc = "returned"
    /\ caught = NoError
    /\ Len(consumed) = MaxEvents
    /\ Updates # {}
    /\ AllOk

\* A throttled updateActivity of the loop is failing in this step.
ThrottledUpdateFailsNow ==
    /\ Len(log') = Len(log) + 1
    /\ Last(log').op = "update"
    /\ Last(log').site \in {170, 231}
    /\ ~Last(log').ok

\* C29: when a throttled updateActivity of the loop fails, the failure is
\* swallowed: the message handle and the caught error are what they were,
\* the handler goes on where the successful update would have gone on (the
\* text and the count grow only by the text parts that follow in the same
\* artifact, and not at all after a message event), the stream stays open
\* for its remaining events, and handleRegularResponse is not entered.
C29_ThrottledFailureSwallowed ==
    [][ThrottledUpdateFailsNow =>
          /\ messageActivity' = messageActivity
          /\ caught' = NoError
          /\ streamState' = "open"
          /\ pc' \in {"loop", "call"}
          /\ timerActive' = timerActive
          /\ IsPrefix(accumulatedText, accumulatedText')
          /\ updateCount' - updateCount
                = Len(accumulatedText') - Len(accumulatedText)
          /\ Last(log').site = 170 =>
                accumulatedText' = accumulatedText /\ updateCount' = updateCount
          /\ Last(log').text = Bot(accumulatedText)]_vars

C29_Witness ==
    /\ \E i \in Updates : log[i].site = 231 /\ ~log[i].ok
    /\ Len(consumed) = 3
    /\ consumed[1] = ArtThree
    /\ consumed[2] = ArtThree
    /\ pc = "returned"
    /\ caught = NoError
    /\ AgentCalls("sendMessage") = {}
    /\ accumulatedText = <<"x", "y", "z", "x", "y", "z", "partial">>

\* C30: in every step of an invocation the new accumulatedText has the old
\* one as a prefix: no event, no failed call and no timer callback resets
\* or shortens it.
C30_TextOnlyGrows ==
    [][IsPrefix(accumulatedText, accumulatedText')]_vars

C30_Witness ==
    /\ consumed = <<MsgPartial, TaskWorking, StatusFailed>>
    /\ accumulatedText = <<"partial">>
    /\ tickFails > 0
    /\ pc = "returned"

\* C21 (dialog path): once sendMessageWithPolling has thrown a 401 or
\* 'Unauthorized' error and handleQueryResponse has dealt with it, the turn
\* state holds neither the token nor the client and the dialog waits at the
\* sign-in prompt.
C21_DialogAuthFailureClears ==
    (route \in {"persist", "over"} /\ pc = "threw" /\ IsAuthError(thrown)) =>
        /\ ~accessToken
        /\ ~a2aClient
        /\ stage = "oauth"

\* C26: when the step after the sign-in prompt gets no token response,
\* loginStep displays the login failure and ends the dialog; the token and
\* the client of the turn state stay as they were and nothing is forwarded
\* to the agent in that run.
C26_NoTokenIsLoginFailure ==
    /\ [][(route = "steps" /\ stage = "oauth" /\ promptResult = "none") =>
            /\ said' = Append(said, MsgLoginFailed)
            /\ stage' = "empty"
            /\ accessToken' = accessToken
            /\ a2aClient' = a2aClient
            /\ route' = "persist"
            /\ pc' = "idle"
            /\ log' = << >>]_vars
    /\ []((route \in {"persist", "over"} /\ pc = "idle" /\ said # << >>
           /\ Last(said) = MsgLoginFailed) =>
              /\ stage = "empty"
              /\ log = << >>)

C26_Witness ==
    /\ route = "over"
    /\ said = <<MsgLoginFailed>>
    /\ stage = "empty"
    /\ ~accessToken
    /\ ~a2aClient
    /\ log = << >>

\* C31: messageActivity is unset as long as updateCount is 0; it is set by
\* the sendActivity of the first text contribution, when that call returns,
\* so that the loop never goes on to a second contribution without it; once
\* set it is never replaced or cleared; and when it is set accumulatedText
\* is not empty.
C31_HandleSetOnceAtFirstText ==
    /\ [](updateCount = 0 => messageActivity = 0)
    /\ [](messageActivity # 0 => accumulatedText # << >>)
    /\ []((pc \in {"loop", "call"} /\ updateCount > 0 /\ messageActivity = 0) =>
             /\ pc = "call"
             /\ pending.op = "send"
             /\ pending.site \in {165, 227}
             /\ updateCount = 1)
    /\ [][/\ messageActivity # 0 => messageActivity' = messageActivity
          /\ (messageActivity = 0 /\ messageActivity' # 0) =>
                /\ updateCount = 1
                /\ pending.op = "send"
                /\ log' = Append(log, Entry([pending EXCEPT
                                               !.id = messageActivity'], TRUE))
       ]_vars

C31_Witness ==
    /\ pc = "returned"
    /\ messageActivity = 3
    /\ updateCount >= UPDATE_INTERVAL
    /\ \E i \in Updates : log[i].site \in {170, 231} /\ log[i].id = 3
    /\ \E i \in Updates : log[i].site = 263 /\ log[i].id = 3

\* The calls that showed text in the message kept as messageActivity, and
\* the text that message shows now.
Shown ==
    {i \in LogIdx : /\ log[i].ok
                    /\ log[i].op \in {"send", "update"}
                    /\ log[i].id = messageActivity}
ShownText ==
    IF messageActivity = 0 \/ Shown = {}
    THEN << >>
    ELSE log[CHOOSE i \in Shown : \A j \in Shown : j <= i].text

\* C32: every sendActivity of the streamed message and every updateActivity
\* is started with the whole accumulatedText of that moment; the text the
\* message shows is therefore a prefix of the text accumulated; and when the
\* routine has returned after a final update that succeeded, the message
\* shows all of it.
C32_DisplayShowsAccumulatedText ==
    /\ [][(pending' # pending /\ pending'.op \in {"send", "update"}
           /\ pending'.site \in {165, 170, 205, 227, 231, 263}) =>
              pending'.text = Bot(accumulatedText')]_vars
    /\ [](\A i \in 1..Len(outbox) :
             outbox[i].site \in {270, 274} => outbox[i].text = Bot(accumulatedText))
    /\ [](messageActivity # 0 =>
             /\ Shown # {}
             /\ IsPrefix(ShownText, Bot(accumulatedText)))
    /\ []((pc = "returned" /\ log # << >> /\ Last(log).site = 263
           /\ Last(log).ok) =>
             ShownText = Bot(accumulatedText))

C32_Witness ==
    /\ pc = "returned"
    /\ Last(log).site = 263
    /\ Last(log).ok
    /\ ShownText = Bot(accumulatedText)
    /\ Len(accumulatedText) >= UPDATE_INTERVAL
    /\ \E i \in Updates : log[i].site \in {170, 231} /\ ~log[i].ok
    /\ log[messageActivity].text # ShownText

\* The text contributions of events handled to their end: the first part of
\* a message when it has text, every text part with text of an
\* artifact-update that has parts.
TextParts(parts) ==
    {k \in 1..Len(parts) : parts[k].kind = "text" /\ parts[k].text # << >>}
RECURSIVE ContributionsOf(_)
ContributionsOf(events) ==
    IF events = << >> THEN 0
    ELSE LET ev == Last(events)
             n == IF ev.kind = "message"
                  THEN (IF FirstText(ev.parts) # << >> THEN 1 ELSE 0)
                  ELSE IF ev.kind = "artifact-update" /\ ev.artifact.hasParts
                  THEN Cardinality(TextParts(ev.artifact.parts))
                  ELSE 0
         IN n + ContributionsOf(SubSeq(events, 1, Len(events) - 1))

\* C33: updateCount is the number of text contributions appended (each text
\* of the events is one token of accumulatedText, and between two events it
\* is the number of contributions of the events taken); a contribution made
\* without a message sends the message and nothing else; one made with a
\* message starts an updateActivity exactly when its count is a multiple of
\* 5; and no throttled updateActivity is started otherwise.
C33_UpdateEveryFifthContribution ==
    /\ [](updateCount = Len(accumulatedText))
    /\ [](pc = "loop" => updateCount = ContributionsOf(consumed))
    /\ [][updateCount' # updateCount =>
            /\ updateCount' > updateCount
            /\ IF messageActivity' = 0
               THEN /\ updateCount' = updateCount + 1
                    /\ pending' = Call("send", pending'.site, 0,
                                       Bot(accumulatedText'))
                    /\ pending'.site \in {165, 227}
               ELSE /\ \A c \in (updateCount + 1)..(updateCount' - 1) :
                          c % 5 # 0
                    /\ IF updateCount' % 5 = 0
                       THEN /\ pending'.op = "update"
                            /\ pending'.site \in {170, 231}
                            /\ pending'.id = messageActivity'
                       ELSE pending' = NoCall]_vars
    /\ [][(pending' # pending /\ pending'.site \in {170, 231}) =>
            /\ updateCount' > updateCount
            /\ updateCount' % 5 = 0
            /\ messageActivity # 0]_vars

C33_Witness ==
    /\ pc = "call"
    /\ pending.op = "update"
    /\ pending.site = 231
    /\ updateCount = 5
    /\ Len(consumed) = 2
    /\ partIdx > 0
    /\ messageActivity = 3

\* The last Task event of a stream, or NoTask, and the status a stream
\* leaves: that of the last status-update after the last Task event, or the
\* task's own.
RECURSIVE LastTask(_)
LastTask(events) ==
    IF events = << >> THEN NoTask
    ELSE IF Last(events).kind = "task" THEN Last(events)
    ELSE LastTask(SubSeq(events, 1, Len(events) - 1))
RECURSIVE StatusLeft(_)
StatusLeft(events) ==
    IF events = << >> THEN NoStatus
    ELSE LET ev == Last(events)
             before == SubSeq(events, 1, Len(events) - 1)
         IN IF ev.kind = "task" THEN ev.status
            ELSE IF ev.kind = "status-update" /\ LastTask(before) # NoTask
            THEN ev.status
            ELSE StatusLeft(before)

\* C34: a status-update puts its status into the task kept from the last
\* Task event and makes no task when none was taken; the task line of the
\* final display names the task of the last Task event with the state of
\* the last status-update taken after it, or the task's own, and the status
\* message line shows the message of that same status.
C34_SummaryShowsLastStatus ==
    /\ [](IF LastTask(consumed) = NoTask
          THEN currentTask = NoTask
          ELSE currentTask = [LastTask(consumed) EXCEPT
                                !.status = StatusLeft(consumed)])
    /\ [](\A i \in At({278}) :
             /\ streamState = "ended"
             /\ log[i].text = <<"task:", LastTask(consumed).id,
                                StatusLeft(consumed).state>>)
    /\ [](\A i \in At({298}) :
             /\ At({278}) # {}
             /\ log[i].text = <<"info:", StatusLeft(consumed).message>>)
    /\ []((pc = "returned" /\ caught = NoError /\ At({278}) # {}
           /\ StatusLeft(consumed).message # "") => At({298}) # {})

C34_Witness ==
    /\ pc = "returned"
    /\ caught = NoError
    /\ consumed = <<StatusCompleted, TaskWorking, StatusFailed>>
    /\ \E i \in At({278}) : log[i].text = <<"task:", "t1", "failed">>
    /\ \E i \in At({298}) : log[i].text = <<"info:", "boom">>

\* The calls of the three branches of the final display.
TextBranch == At({263, 270, 274})
TaskBranch == At({278, 283, 287, 289, 298})
NoticeBranch == At({301})

\* C35: the final display takes one branch. With text accumulated it shows
\* the text only: no task line, artifact line, status message or notice,
\* whatever task and artifacts were received. The task lines appear only
\* with no text and a task, the notice only with no text, no task and no
\* event.
C35_FinalBranchesExclusive ==
    /\ TextBranch # {} => accumulatedText # << >>
    /\ TaskBranch # {} => accumulatedText = << >> /\ currentTask # NoTask
    /\ NoticeBranch # {} =>
          accumulatedText = << >> /\ currentTask = NoTask /\ ~receivedEvents
    /\ (pc = "returned" /\ caught = NoError) =>
          /\ accumulatedText # << >> => TextBranch # {}
          /\ (accumulatedText = << >> /\ currentTask # NoTask) =>
                \E i \in TaskBranch : log[i].site = 278

C35_Witness ==
    /\ pc = "returned"
    /\ caught = NoError
    /\ accumulatedText # << >>
    /\ currentTask # NoTask
    /\ lastArtifacts # << >>
    /\ TextBranch # {}
    /\ TaskBranch = {}
    /\ NoticeBranch = {}

C35_TaskWitness ==
    /\ pc = "returned"
    /\ caught = NoError
    /\ accumulatedText = << >>
    /\ Cardinality(TaskBranch) > 3
    /\ TextBranch = {}

\* C37: the step that takes a "completed" status-update leaves the routine
\* in the loop with the stream open; the events taken after it contribute
\* their text and count like any other; and after it the loop is left only
\* when the stream is exhausted or raises, or when the sendActivity of the
\* first message throws.
C37_CompletedDoesNotEndLoop ==
    /\ [][(consumed' # consumed /\ Last(consumed').kind = "status-update"
           /\ Last(consumed').status.state = "completed") =>
              /\ pc' \in {"loop", "call"}
              /\ streamState' = "open"]_vars
    /\ []((SawCompleted /\ pc = "loop") =>
             /\ updateCount = ContributionsOf(consumed)
             /\ Len(accumulatedText) = ContributionsOf(consumed))
    /\ [][(SawCompleted /\ pc \in {"loop", "call"}
           /\ pc' \notin {"loop", "call"}) =>
              \/ pc = "loop" /\ streamState' \in {"ended", "raised"}
              \/ /\ pc = "call"
                 /\ pending.op = "send"
                 /\ ~Last(log').ok]_vars

C37_Witness ==
    /\ pc = "returned"
    /\ caught = NoError
    /\ streamState = "ended"
    /\ consumed = <<StatusCompleted, ArtThree, ArtThree>>
    /\ accumulatedText = <<"x", "y", "z", "x", "y", "z">>
    /\ \E i \in Updates : log[i].site = 231 /\ log[i].ok
    /\ log[messageActivity].text = Bot(<<"x">>)

\* C38: when the stream has yielded an event and is exhausted, and no text
\* was accumulated and no Task event taken, the routine has returned and has
\* called nothing but its first typing activity and sendMessageStream: no
\* message, no task line, no notice, no sendMessage.
C38_SilentWhenNothingToShow ==
    /\ []((streamState = "ended" /\ consumed # << >>
           /\ accumulatedText = << >> /\ currentTask = NoTask) =>
              /\ pc = "returned"
              /\ caught = NoError
              /\ thrown = NoError
              /\ [i \in LogIdx |-> log[i].op] = <<"typing", "stream">>
              /\ pending = NoCall
              /\ outbox = << >>)
    /\ [][(streamState # "ended" /\ streamState' = "ended"
            /\ consumed # << >> /\ accumulatedText = << >>
            /\ currentTask = NoTask) =>
              (pc' = "returned" /\ log' = log)]_vars

C38_Witness ==
    /\ streamState = "ended"
    /\ pc = "returned"
    /\ consumed = <<StatusFailed, MsgFileFirst, StatusCompleted>>
    /\ accumulatedText = << >>
    /\ Len(log) = 2

\* C39: a persisted a2aState that holds a token and a server URL is never
\* emptied: only persistA2AState writes it, and only from a turn state that
\* holds both; the catch of handleMessage clears the token and the client
\* of the turn state on an authentication error and leaves the persisted
\* state alone; the restoreA2AState of the dialog run that follows in the
\* same turn puts the token and the URL back, and they stay for the rest of
\* the run.
C39_PersistedStateNeverEmptied ==
    /\ [][persisted => persisted']_vars
    /\ [][persisted' # persisted =>
            /\ route = "persist"
            /\ convState /\ accessToken /\ serverUrl]_vars
    /\ [][(route = "agent" /\ pc = "threw" /\ IsAuthError(thrown)) =>
            /\ ~accessToken' /\ ~a2aClient'
            /\ persisted' = persisted
            /\ route' = "dialog"]_vars
    /\ [][(route = "run" /\ persisted) =>
            /\ accessToken' /\ serverUrl'
            /\ persisted']_vars
    /\ []((dialogRuns = 1 /\ route # "run" /\ persisted) =>
            accessToken /\ serverUrl)

\* The router cleared the session on a 401, the dialog run of the same turn
\* restored it and forwarded the text with the restored client; the
\* persisted state is still there when the run is over.
C39_Witness ==
    /\ route = "over"
    /\ dialogRuns = 1
    /\ persisted
    /\ accessToken
    /\ a2aClient
    /\ stage = "empty"
    /\ pc = "threw"
    /\ IsAuthError(thrown)

ErrorNotices ==
    {i \in 1..Len(said) : said[i][1] = "Error processing your message:"}

\* C40: in the query step of the dialog a reply equal to 'exit' in any
\* letter case, or a turn state without agent client, ends the dialog with
\* one message and no call of the agent; any other reply is forwarded once.
\* When sendMessageWithPolling returns, the waterfall starts again in
\* continue mode and waits at the message prompt; when it throws, the catch
\* sends one error notice, ends the dialog and the run goes on to
\* persistA2AState: nothing is forwarded a second time.
C40_QueryStepEndsOrRestarts ==
    /\ [][(route = "steps" /\ stage = "query") =>
            IF userMessage = TxtExitWord
            THEN /\ said' = Append(said, MsgGoodbye)
                 /\ stage' = "empty"
                 /\ route' = "persist"
                 /\ pc' = "idle" /\ log' = << >>
            ELSE IF ~a2aClient
            THEN /\ said' = Append(said, MsgNoClient)
                 /\ stage' = "empty"
                 /\ route' = "persist"
                 /\ pc' = "idle" /\ log' = << >>
            ELSE /\ said' = said
                 /\ stage' = "query"
                 /\ route' = "polling"
                 /\ pc' = "start"]_vars
    /\ [][(route = "polling" /\ pc = "returned") =>
            /\ said' = Append(said, AskMessage)
            /\ stage' = "query"
            /\ route' = "persist"]_vars
    /\ [][(route = "polling" /\ pc = "threw") =>
            /\ said' = Append(said,
                   <<"Error processing your message:",
                     "Failed to communicate with A2A agent:">>
                   \o SubSeq(thrown, 2, Len(thrown)))
            /\ stage' = "empty"
            /\ route' = "persist"]_vars
    /\ [][(route \in {"persist", "over"}) =>
            (route' \in {"persist", "over"})]_vars
    /\ []((route \in {"persist", "over"} /\ pc = "idle") => log = << >>)
    /\ []((route \in {"persist", "over"} /\ pc = "threw") =>
            /\ Cardinality(ErrorNotices) = 1
            /\ stage = "empty"
            /\ Cardinality({i \in LogIdx : log[i].op = "stream"}) <= 1)
    /\ []((route \in {"persist", "over"} /\ pc # "threw") =>
            ErrorNotices = {})

\* The exchange failed with the agent's 401: one notice, dialog ended.
C40_Witness ==
    /\ route = "over"
    /\ pc = "threw"
    /\ stage = "empty"
    /\ said = << <<"Error processing your message:",
                   "Failed to communicate with A2A agent:", "401">> >>

\* 'Exit' ends the dialog with the client in the turn state and no call.
C40_ExitWitness ==
    /\ route = "over"
    /\ userMessage = TxtExitWord
    /\ a2aClient
    /\ said = <<MsgGoodbye>>
    /\ stage = "empty"
    /\ log = << >>

\* The exchange went through: the dialog waits for the next message.
C40_RestartWitness ==
    /\ route = "over"
    /\ pc = "returned"
    /\ log # << >>
    /\ stage = "query"
    /\ said = <<AskMessage>>

====
